---------------------------- MODULE Spec2Model ----------------------------
(***************************************************************************)
(* A state-machine model of the MapTiler 3D plugin: the item registry of   *)
(* a Layer3D (add / modify / clone / remove / load from URL / render pass),*)
(* the WebGLRenderManager singleton (attach, detach, pointer events) and   *)
(* the UI-state stack of an Item3D.                                        *)
(***************************************************************************)
EXTENDS Integers, Sequences, FiniteSets, TLC

(***************************************************************************)
(* Bounds of the model                                                     *)
(***************************************************************************)
\* number of scene-graph objects that can ever be allocated
MaxObjs == 3
\* number of addMeshFromURL calls in flight at once
MaxPending == 2
\* number of calls in one behaviour of a layer specification
MaxSteps == 4
\* number of modify calls in one behaviour of the modify specification
MaxModifies == 2

(***************************************************************************)
(* Program constants                                                       *)
(***************************************************************************)
\* enum AltitudeReference
GROUND == 1
MEAN_SEA_LEVEL == 2
\* enum SourceOrientation
X_UP == 1
Y_UP == 2
Z_UP == 3
\* default altitude of a point light (addPointLight)
PointLightAltitude == 2000000

(***************************************************************************)
(* Input domains                                                           *)
(***************************************************************************)
Layers == {"L1", "L2"}
Ids == {"m1", "m2"}
\* geographic positions: p0 is [0, 0], the default lngLat
Positions == {"p0", "p1"}
\* encoding of a null answer of map.queryTerrainElevation
Null == -9999
Elevations == {0, 5}
\* a JavaScript number that is neither null nor a real value never occurs:
\* x || 0 maps null and 0 to 0 and keeps every other number
OrZero(x) == IF x = Null \/ x = 0 THEN 0 ELSE x

OptionKeys ==
  {"visible", "lngLat", "altitude", "altitudeReference", "heading", "scale",
   "opacity", "pointSize", "wireframe", "sourceOrientation"}

\* two full value assignments; an option object is a set of present keys
\* together with one of them (opacity is in percent)
ValA ==
  [visible |-> FALSE, lngLat |-> "p1", altitude |-> 10,
   altitudeReference |-> MEAN_SEA_LEVEL, heading |-> 90, scale |-> 2,
   opacity |-> 50, pointSize |-> 3, wireframe |-> TRUE,
   sourceOrientation |-> Z_UP]
ValB ==
  [visible |-> TRUE, lngLat |-> "p0", altitude |-> 20,
   altitudeReference |-> GROUND, heading |-> 0, scale |-> 1,
   opacity |-> 100, pointSize |-> 1, wireframe |-> FALSE,
   sourceOrientation |-> Y_UP]

\* "k" in options
Has_always(o, k) == TRUE
Has(o, k) == k \in o.keys
\* options.k ?? d
Get_default(o, k, d) == d
Get(o, k, d) == IF k \in o.keys THEN o.v[k] ELSE d
NoOptions == [keys |-> {}, v |-> ValB]

\* URLs as sequences of characters
UrlGlb == <<"a", ".", "g", "l", "b">>
UrlGltfUpper == <<" ", "a", ".", "G", "L", "T", "F", " ">>
UrlObj == <<"a", ".", "o", "b", "j">>
UrlQuery == <<"a", ".", "g", "l", "b", "?", "v">>
Urls == {UrlGlb, UrlGltfUpper, UrlObj, UrlQuery}

VARIABLES
  items3D,      \* Layer3D.items3D, per layer: id -> item
  scene,        \* Layer3D.scene.children (the meshes), per layer
  meshes,       \* the scene-graph objects that exist: object id -> object
  materials,    \* the materials that exist: material id -> material
  geometries,   \* the geometries that exist: geometry id -> geometry
  nextObj,      \* next fresh object id
  pending,      \* addMeshFromURL calls awaiting loader.loadAsync
  terrain,      \* the host's terrain elevation at each position
  isElevationNeedUpdate, \* Layer3D.isElevationNeedUpdate, per layer
  placed,       \* model.matrix of each object, as set by the last pass
  webGLRenderManager,  \* the module-level singleton: "null" or "instance"
  renderer,     \* the WebGLRenderer: how many were built, and disposal
  layerData,    \* WebGLRenderManager.layerData, in insertion order
  managerLayerOnMap,   \* whether the map holds the manager's custom layer
  pointer,      \* WebGLRenderManager.pointer
  currentRaycastIntersection, \* the recorded hit object, 0 for null
  emitted,      \* what the last manager handler dispatched to layers
  camera,       \* camera.projectionMatrix of each layer, symbolically
  drawn,        \* the calls of the last render pass, in order
  lastFrame,    \* what the host handed to the last render pass
  repositioned, \* the layers whose prepareRender placed items in that pass
  item3D,       \* one Item3D instance
  invoked,      \* the setters the last Item3D event or call invoked
  repaints,     \* how many times the item called map.triggerRepaint
  animationLoops, \* WebGLRenderManager.animationLoops: the ids, in order
  op            \* the last call and its outcome

layerVars ==
  <<items3D, scene, meshes, materials, geometries, nextObj, pending, terrain,
    isElevationNeedUpdate, placed>>

managerVars ==
  <<webGLRenderManager, renderer, layerData, managerLayerOnMap, pointer,
    currentRaycastIntersection, emitted, camera, drawn, lastFrame, repositioned,
    animationLoops>>

itemVars == <<item3D, invoked, repaints>>

vars == <<layerVars, managerVars, itemVars, op>>

Empty == [x \in {} |-> 0]

(***************************************************************************)
(* The layer-side world as one value, so that an operation is a function   *)
(* from world to world; thrown records an exception that left the          *)
(* operation.                                                              *)
(***************************************************************************)
World ==
  [items3D |-> items3D, scene |-> scene, meshes |-> meshes,
   materials |-> materials, geometries |-> geometries, nextObj |-> nextObj,
   thrown |-> FALSE, noop |-> FALSE]

Commit(w) ==
  /\ items3D' = w.items3D
  /\ scene' = w.scene
  /\ meshes' = w.meshes
  /\ materials' = w.materials
  /\ geometries' = w.geometries
  /\ nextObj' = w.nextObj

Outcome(w) == IF w.thrown THEN "throw" ELSE IF w.noop THEN "noop" ELSE "ok"

QueryTerrainElevation(p) == terrain[p]

\* utils.getTransformationMatrix: the matrix is kept symbolically, as the
\* three inputs it is composed from
GetTransformationMatrix(scale, heading, orientation) ==
  [scale |-> scale, heading |-> heading, orientation |-> orientation]

(***************************************************************************)
(* new Mesh / new Points / new PointLight / a loaded glTF scene            *)
(***************************************************************************)
NewObject(w, kind, url) ==
  LET n == w.nextObj IN
  [w EXCEPT
     !.meshes = (n :> [kind |-> kind, visible |-> TRUE,
                       matrixAutoUpdate |-> TRUE,
                       material |-> IF kind = "light" THEN 0 ELSE n,
                       geometry |-> IF kind = "light" THEN 0 ELSE n,
                       url |-> url]) @@ @,
     !.materials = IF kind = "light" THEN @
                   ELSE (n :> [opacity |-> 100, transparent |-> FALSE,
                               wireframe |-> FALSE, size |-> 1,
                               disposed |-> FALSE]) @@ @,
     !.geometries = IF kind = "light" THEN @
                    ELSE (n :> [disposed |-> FALSE]) @@ @,
     !.nextObj = n + 1]

\* Layer3D.setMeshOpacity
SetMeshOpacity(w, m, opacity) ==
  IF w.meshes[m].kind \in {"mesh", "points"}
  THEN [w EXCEPT !.materials[w.meshes[m].material].opacity = opacity,
                 !.materials[w.meshes[m].material].transparent = TRUE]
  ELSE w

\* Layer3D.setMeshPointSize
SetMeshPointSize(w, m, size) ==
  IF w.meshes[m].kind = "points"
  THEN [w EXCEPT !.materials[w.meshes[m].material].size = size]
  ELSE w

\* Layer3D.setMeshWireframe
SetMeshWireframe(w, m, wireframe) ==
  IF w.meshes[m].kind = "mesh"
  THEN [w EXCEPT !.materials[w.meshes[m].material].wireframe = wireframe]
  ELSE w

\* Layer3D.throwUniqueID: TRUE when it throws
ThrowUniqueID_never(registry, id) == FALSE
ThrowUniqueID(registry, id) == id \in DOMAIN registry

\* Layer3D.addMeshInternal
AddMeshInternal(w, l, id, m, animations, o) ==
  IF ThrowUniqueID(w.items3D[l], id) THEN [w EXCEPT !.thrown = TRUE]
  ELSE
    LET sourceOrientation == Get(o, "sourceOrientation", Y_UP)
        altitude == Get(o, "altitude", 0)
        lngLat == Get(o, "lngLat", "p0")
        heading == Get(o, "heading", 0)
        visible == Get(o, "visible", TRUE)
        opacity == Get(o, "opacity", 100)
        scale == Get(o, "scale", 1)
        pointSize == Get(o, "pointSize", 1)
        wireframe == Get(o, "wireframe", FALSE)
        w1 == IF opacity # 100 THEN SetMeshOpacity(w, m, opacity) ELSE w
        w2 == IF Has(o, "pointSize") THEN SetMeshPointSize(w1, m, pointSize)
              ELSE w1
        w3 == IF Has(o, "wireframe") THEN SetMeshWireframe(w2, m, wireframe)
              ELSE w2
        item ==
          [id |-> id, lngLat |-> lngLat, altitude |-> altitude,
           scale |-> scale, sourceOrientation |-> sourceOrientation,
           heading |-> heading, mesh |-> m,
           altitudeReference |-> Get(o, "altitudeReference", GROUND),
           url |-> w.meshes[m].url, opacity |-> opacity,
           pointSize |-> pointSize, wireframe |-> wireframe,
           additionalTransformationMatrix |->
             GetTransformationMatrix(scale, heading, sourceOrientation),
           elevation |-> OrZero(QueryTerrainElevation(lngLat)),
           animations |-> animations,
           animationMode |-> Get(o, "animationMode", "continuous")]
    IN [w3 EXCEPT
          !.items3D[l] = (id :> item) @@ @,
          !.meshes[m].matrixAutoUpdate = FALSE,
          !.meshes[m].visible = visible,
          !.scene[l] = @ \cup {m}]


\* Layer3D.addMesh
AddMeshOp(w, l, id, m, o) == AddMeshInternal(w, l, id, m, {}, o)

\* Layer3D.addPointLight
AddPointLightOp(w, l, id, o) ==
  IF ThrowUniqueID(w.items3D[l], id) THEN [w EXCEPT !.thrown = TRUE]
  ELSE
    LET w1 == NewObject(w, "light", <<>>)
        lightOptions ==
          [keys |-> {"lngLat", "altitude", "altitudeReference"},
           v |-> [o.v EXCEPT
                    !.lngLat = Get(o, "lngLat", "p0"),
                    !.altitude = Get(o, "altitude", PointLightAltitude),
                    !.altitudeReference =
                       Get(o, "altitudeReference", MEAN_SEA_LEVEL)]]
    IN AddMeshInternal(w1, l, id, w.nextObj, {}, lightOptions)

\* Object3D.clone(true) followed by the material cloning of cloneMesh: the
\* geometry is shared with the source, the material is cloned only for a
\* node that is an instance of Mesh
CloneObject(w, src) ==
  LET n == w.nextObj
      s == w.meshes[src]
  IN [w EXCEPT
        !.meshes = (n :> [s EXCEPT !.material =
                                      IF s.kind = "mesh" THEN n ELSE @]) @@ @,
        !.materials = IF s.kind = "mesh"
                      THEN (n :> [w.materials[s.material]
                                    EXCEPT !.disposed = FALSE]) @@ @
                      ELSE @,
        !.nextObj = n + 1]

\* Layer3D.cloneMesh
CloneMeshOp(w, l, sourceId, id, o) ==
  IF ThrowUniqueID(w.items3D[l], id) THEN [w EXCEPT !.thrown = TRUE]
  ELSE IF sourceId \notin DOMAIN w.items3D[l] THEN [w EXCEPT !.noop = TRUE]
  ELSE
    LET sourceItem == w.items3D[l][sourceId]
        fromSource ==
          [lngLat |-> sourceItem.lngLat, altitude |-> sourceItem.altitude,
           altitudeReference |-> sourceItem.altitudeReference,
           visible |-> w.meshes[sourceItem.mesh].visible,
           sourceOrientation |-> sourceItem.sourceOrientation,
           scale |-> sourceItem.scale, heading |-> sourceItem.heading]
        cloneOptions ==
          [keys |-> DOMAIN fromSource \cup o.keys,
           v |-> [k \in OptionKeys |->
                    IF k \in o.keys \/ k \notin DOMAIN fromSource
                    THEN o.v[k] ELSE fromSource[k]]]
        w1 == CloneObject(w, sourceItem.mesh)
    IN AddMeshInternal(w1, l, id, w.nextObj, {}, cloneOptions)

\* String.prototype.trim, toLowerCase, split(".").pop() on character
\* sequences
RECURSIVE TrimStart(_)
TrimStart(s) ==
  IF s # <<>> /\ Head(s) = " " THEN TrimStart(Tail(s)) ELSE s
RECURSIVE TrimEnd(_)
TrimEnd(s) ==
  IF s # <<>> /\ s[Len(s)] = " " THEN TrimEnd(SubSeq(s, 1, Len(s) - 1))
  ELSE s
Trim(s) == TrimEnd(TrimStart(s))
LowerOf(c) ==
  CASE c = "G" -> "g" [] c = "L" -> "l" [] c = "B" -> "b" [] c = "T" -> "t"
    [] c = "F" -> "f" [] c = "A" -> "a" [] OTHER -> c
ToLowerCase(s) == [i \in 1..Len(s) |-> LowerOf(s[i])]
RECURSIVE SplitPop(_)
SplitPop(s) ==
  IF \E i \in 1..Len(s) : s[i] = "."
  THEN SplitPop(SubSeq(s, (CHOOSE i \in 1..Len(s) : s[i] = ".") + 1, Len(s)))
  ELSE s
FileExt(url) == SplitPop(ToLowerCase(Trim(url)))

\* the extension test of addMeshFromURL: TRUE when the call goes on
IsGltfExtension_any(url) == TRUE
IsGltfExtension(url) ==
  FileExt(url) = <<"g", "l", "b">> \/ FileExt(url) = <<"g", "l", "t", "f">>

\* Layer3D.modifyMesh
ModifyMeshOp(w, l, id, o) ==
  IF id \notin DOMAIN w.items3D[l] THEN [w EXCEPT !.noop = TRUE]
  ELSE
    LET item == w.items3D[l][id]
        m == item.mesh
        w1 == IF Has(o, "visible")
              THEN [w EXCEPT !.meshes[m].visible = o.v.visible] ELSE w
        lngLat == Get(o, "lngLat", item.lngLat)
        i1 == IF Has(o, "lngLat")
              THEN [item EXCEPT
                      !.lngLat = lngLat,
                      !.elevation = OrZero(QueryTerrainElevation(lngLat))]
              ELSE item
        i2 == IF Has(o, "scale") THEN [i1 EXCEPT !.scale = o.v.scale] ELSE i1
        i3 == IF Has(o, "altitude")
              THEN [i2 EXCEPT !.altitude = o.v.altitude] ELSE i2
        i4 == IF Has(o, "altitudeReference")
              THEN [i3 EXCEPT
                      !.altitudeReference = o.v.altitudeReference,
                      !.elevation = OrZero(QueryTerrainElevation(lngLat))]
              ELSE i3
        i5 == IF Has(o, "heading")
              THEN [i4 EXCEPT !.heading = o.v.heading] ELSE i4
        i6 == IF Has(o, "scale") \/ Has(o, "heading")
              THEN [i5 EXCEPT !.additionalTransformationMatrix =
                      GetTransformationMatrix(i5.scale, i5.heading,
                                              i5.sourceOrientation)]
              ELSE i5
        w2 == [w1 EXCEPT !.items3D[l][id] = i6]
        w3 == IF Has(o, "opacity") THEN SetMeshOpacity(w2, m, o.v.opacity)
              ELSE w2
        w4 == IF Has(o, "pointSize")
              THEN SetMeshPointSize(w3, m, o.v.pointSize) ELSE w3
    IN IF Has(o, "wireframe") THEN SetMeshWireframe(w4, m, o.v.wireframe)
       ELSE w4

\* Layer3D.modifyPointLight (colour, intensity and decay of the light are
\* not part of the model)
ModifyPointLightOp(w, l, id, o) ==
  IF id \notin DOMAIN w.items3D[l] THEN [w EXCEPT !.noop = TRUE]
  ELSE IF w.meshes[w.items3D[l][id].mesh].kind # "light"
  THEN [w EXCEPT !.noop = TRUE]
  ELSE
    LET item == w.items3D[l][id]
        i1 == IF Has(o, "altitude")
              THEN [item EXCEPT !.altitude = o.v.altitude] ELSE item
        i2 == IF Has(o, "lngLat") THEN [i1 EXCEPT !.lngLat = o.v.lngLat]
              ELSE i1
        i3 == IF Has(o, "altitudeReference")
              THEN [i2 EXCEPT !.altitudeReference = o.v.altitudeReference]
              ELSE i2
        w1 == [w EXCEPT !.items3D[l][id] = i3]
    IN IF Has(o, "visible")
       THEN [w1 EXCEPT !.meshes[item.mesh].visible = o.v.visible] ELSE w1

\* the guard of Layer3D.removeMesh: TRUE when it throws
RemoveThrows_never(registry, id) == FALSE
RemoveThrows(registry, id) == id \notin DOMAIN registry

\* Layer3D.removeMesh
RemoveMeshOp(w, l, id) ==
  IF RemoveThrows(w.items3D[l], id) THEN [w EXCEPT !.thrown = TRUE]
  ELSE IF id \notin DOMAIN w.items3D[l] THEN w
  ELSE
    LET m == w.items3D[l][id].mesh
        obj == w.meshes[m]
        w1 == [w EXCEPT !.scene[l] = @ \ {m}]
        w2 == IF obj.kind = "mesh"
              THEN [w1 EXCEPT !.materials[obj.material].disposed = TRUE,
                              !.geometries[obj.geometry].disposed = TRUE]
              ELSE w1
    IN [w2 EXCEPT !.items3D[l] =
          [k \in DOMAIN w.items3D[l] \ {id} |-> w.items3D[l][k]]]

\* Layer3D.clear
RECURSIVE ClearOp(_, _)
ClearOp(w, l) ==
  IF DOMAIN w.items3D[l] = {} THEN w
  ELSE ClearOp(RemoveMeshOp(w, l, CHOOSE k \in DOMAIN w.items3D[l] : TRUE), l)


(***************************************************************************)
(* Layer operations as steps                                               *)
(***************************************************************************)
Call(kind, l, id, keys, w) ==
  [kind |-> kind, layer |-> l, id |-> id, keys |-> keys, url |-> <<>>,
   source |-> "", result |-> Outcome(w), n |-> op.n + 1]

\* a call of the host, or one that has no id
HostCall(kind) ==
  [kind |-> kind, layer |-> "", id |-> "", keys |-> {}, url |-> <<>>,
   source |-> "", result |-> "ok", n |-> op.n + 1]

Budget == op.n < MaxSteps

AddMesh(l, id, kind, o) ==
  /\ Budget
  /\ nextObj <= MaxObjs
  /\ LET w == AddMeshOp(NewObject(World, kind, <<>>), l, id, nextObj, o)
     IN /\ Commit(w)
        /\ op' = Call("addMesh", l, id, o.keys, w)
  /\ UNCHANGED <<pending, terrain, isElevationNeedUpdate, placed>>
  /\ UNCHANGED <<managerVars, itemVars>>

AddPointLight(l, id, o) ==
  /\ Budget
  /\ nextObj <= MaxObjs
  /\ LET w == AddPointLightOp(World, l, id, o)
     IN /\ Commit(w)
        /\ op' = Call("addPointLight", l, id, o.keys, w)
  /\ UNCHANGED <<pending, terrain, isElevationNeedUpdate, placed>>
  /\ UNCHANGED <<managerVars, itemVars>>

CloneMesh(l, sourceId, id, o) ==
  /\ Budget
  /\ nextObj <= MaxObjs
  /\ LET w == CloneMeshOp(World, l, sourceId, id, o)
     IN /\ Commit(w)
        /\ op' = [Call("cloneMesh", l, id, o.keys, w) EXCEPT
                    !.source = sourceId]
  /\ UNCHANGED <<pending, terrain, isElevationNeedUpdate, placed>>
  /\ UNCHANGED <<managerVars, itemVars>>

\* addMeshFromURL up to its await: the id test, the extension test, and
\* the start of the load
AddMeshFromURL(l, id, url, o) ==
  /\ Budget
  /\ Len(pending) < MaxPending
  /\ LET w == IF ThrowUniqueID(items3D[l], id) \/ ~IsGltfExtension(url)
              THEN [World EXCEPT !.thrown = TRUE] ELSE World
     IN /\ Commit(w)
        /\ pending' = IF w.thrown THEN pending
                      ELSE Append(pending,
                                  [layer |-> l, id |-> id, url |-> url,
                                   options |-> o])
        /\ op' = [Call("addMeshFromURL", l, id, o.keys, w) EXCEPT !.url = url]
  /\ UNCHANGED <<terrain, isElevationNeedUpdate, placed>>
  /\ UNCHANGED <<managerVars, itemVars>>

RemoveAt(seq, i) == SubSeq(seq, 1, i - 1) \o SubSeq(seq, i + 1, Len(seq))

\* loader.loadAsync resolves: the rest of addMeshFromURL
LoadResolve_unchecked(i, animations) ==
  /\ Budget
  /\ i \in 1..Len(pending)
  /\ nextObj <= MaxObjs
  /\ LET load == pending[i]
         free == [World EXCEPT
                    !.items3D[load.layer] =
                       [k \in DOMAIN @ \ {load.id} |-> @[k]]]
         w == AddMeshInternal(NewObject(free, "mesh", load.url), load.layer,
                              load.id, nextObj, animations, load.options)
     IN /\ Commit(w)
        /\ op' = [Call("loadResolve", load.layer, load.id,
                        load.options.keys, w) EXCEPT !.url = load.url]
  /\ pending' = RemoveAt(pending, i)
  /\ UNCHANGED <<terrain, isElevationNeedUpdate, placed>>
  /\ UNCHANGED <<managerVars, itemVars>>
LoadResolve(i, animations) ==
  /\ Budget
  /\ i \in 1..Len(pending)
  /\ nextObj <= MaxObjs
  /\ LET load == pending[i]
         w == AddMeshInternal(NewObject(World, "mesh", load.url), load.layer,
                              load.id, nextObj, animations, load.options)
     IN /\ Commit(w)
        /\ op' = [Call("loadResolve", load.layer, load.id,
                        load.options.keys, w) EXCEPT !.url = load.url]
  /\ pending' = RemoveAt(pending, i)
  /\ UNCHANGED <<terrain, isElevationNeedUpdate, placed>>
  /\ UNCHANGED <<managerVars, itemVars>>

\* loader.loadAsync rejects: the error leaves addMeshFromURL
LoadReject(i) ==
  /\ Budget
  /\ i \in 1..Len(pending)
  /\ LET load == pending[i]
         w == [World EXCEPT !.thrown = TRUE]
     IN /\ Commit(w)
        /\ op' = [Call("loadReject", load.layer, load.id,
                        load.options.keys, w) EXCEPT !.url = load.url]
  /\ pending' = RemoveAt(pending, i)
  /\ UNCHANGED <<terrain, isElevationNeedUpdate, placed>>
  /\ UNCHANGED <<managerVars, itemVars>>

ModifyMesh(l, id, o) ==
  /\ Budget
  /\ LET w == ModifyMeshOp(World, l, id, o)
     IN /\ Commit(w)
        /\ op' = Call("modifyMesh", l, id, o.keys, w)
  /\ UNCHANGED <<pending, terrain, isElevationNeedUpdate, placed>>
  /\ UNCHANGED <<managerVars, itemVars>>

ModifyPointLight(l, id, o) ==
  /\ Budget
  /\ LET w == ModifyPointLightOp(World, l, id, o)
     IN /\ Commit(w)
        /\ op' = Call("modifyPointLight", l, id, o.keys, w)
  /\ UNCHANGED <<pending, terrain, isElevationNeedUpdate, placed>>
  /\ UNCHANGED <<managerVars, itemVars>>

RemoveMesh(l, id) ==
  /\ Budget
  /\ LET w == RemoveMeshOp(World, l, id)
     IN /\ Commit(w)
        /\ op' = Call("removeMesh", l, id, {}, w)
  /\ UNCHANGED <<pending, terrain, isElevationNeedUpdate, placed>>
  /\ UNCHANGED <<managerVars, itemVars>>

Clear(l) ==
  /\ Budget
  /\ DOMAIN items3D[l] # {}
  /\ LET w == ClearOp(World, l)
     IN /\ Commit(w)
        /\ op' = Call("clear", l, "", {}, w)
  /\ UNCHANGED <<pending, terrain, isElevationNeedUpdate, placed>>
  /\ UNCHANGED <<managerVars, itemVars>>


(***************************************************************************)
(* The render pass                                                         *)
(***************************************************************************)
\* the zoom range of the layers of this model (Layer3DOptions)
MinZoom == 2
MaxZoom == 22

\* no render pass has run
NoFrame == [zoom |-> 0, transition |-> 0, center |-> "", main |-> ""]

\* what the host hands to a frame: map.getZoom(), projectionTransition (in
\* percent), map.getCenter() and defaultProjectionData.mainMatrix
Frames ==
  {[zoom |-> 10, transition |-> 0, center |-> "p0", main |-> "M1"],
   [zoom |-> 10, transition |-> 100, center |-> "p1", main |-> "M2"],
   [zoom |-> 23, transition |-> 0, center |-> "p0", main |-> "M2"],
   [zoom |-> 1, transition |-> 100, center |-> "p1", main |-> "M1"],
   [zoom |-> 10, transition |-> 50, center |-> "p1", main |-> "M1"]}

Registered(l) == \E i \in 1..Len(layerData) : layerData[i] = l

\* Layer3D.isInZoomRange
IsInZoomRange(z) == z >= MinZoom /\ z <= MaxZoom

\* the altitude prepareRender hands to getMatrixForModel
ModelAltitude_always(reference, altitude, elevation) == altitude + elevation
ModelAltitude(reference, altitude, elevation) ==
  IF reference = GROUND THEN altitude + elevation ELSE altitude

\* the elevation of an item after the resampling step of prepareRender
Resampled_always(it, l) ==
  IF it.altitudeReference = GROUND
  THEN OrZero(QueryTerrainElevation(it.lngLat)) ELSE it.elevation
Resampled(it, l) ==
  IF it.altitudeReference = GROUND /\ isElevationNeedUpdate[l]
  THEN OrZero(QueryTerrainElevation(it.lngLat)) ELSE it.elevation

\* TRUE when prepareRender returns before repositioning anything
PrepareRenderSkips_anyTransition(l, frame) ==
  \/ ~IsInZoomRange(frame.zoom)
  \/ DOMAIN items3D[l] = {}
PrepareRenderSkips(l, frame) ==
  \/ ~IsInZoomRange(frame.zoom)
  \/ DOMAIN items3D[l] = {}
  \/ frame.transition \notin {0, 100}

\* Layer3D.prepareRender
PrepareRender(l, frame) ==
  IF PrepareRenderSkips(l, frame)
  THEN [items |-> items3D[l], placed |-> Empty, camera |-> camera[l]]
  ELSE
    LET reg == [id \in DOMAIN items3D[l] |->
                  [items3D[l][id] EXCEPT !.elevation =
                     Resampled(items3D[l][id], l)]]
    IN [items |-> reg,
        placed |->
          [m \in {reg[id].mesh : id \in DOMAIN reg} |->
             LET it == reg[CHOOSE id \in DOMAIN reg : reg[id].mesh = m]
             IN [lngLat |-> it.lngLat,
                 altitude |-> ModelAltitude(it.altitudeReference, it.altitude,
                                            it.elevation),
                 local |-> it.additionalTransformationMatrix,
                 origin |-> frame.center]],
        camera |-> [origin |-> frame.center, main |-> frame.main]]

\* the calls the loop body of WebGLRenderManager.render makes for a layer
CallsOfLayer_drawFirst(l) ==
  <<[call |-> "render", layer |-> l], [call |-> "prepareRender", layer |-> l]>>
CallsOfLayer(l) ==
  <<[call |-> "prepareRender", layer |-> l], [call |-> "render", layer |-> l]>>

\* the calls of WebGLRenderManager.render over the first n layers of ld
RECURSIVE RenderCalls(_, _)
RenderCalls(ld, n) ==
  IF n = 0 THEN <<[call |-> "resetState", layer |-> ""]>>
  ELSE RenderCalls(ld, n - 1) \o CallsOfLayer(ld[n])

\* WebGLRenderManager.render: every registered layer is prepared and drawn
Render(frame) ==
  /\ Budget
  /\ managerLayerOnMap
  /\ LET ls == {layerData[i] : i \in 1..Len(layerData)}
         r == [l \in ls |-> PrepareRender(l, frame)]
     IN /\ items3D' = [l \in Layers |-> IF l \in ls THEN r[l].items
                                        ELSE items3D[l]]
        /\ placed' = [m \in DOMAIN placed \cup
                              UNION {DOMAIN r[l].placed : l \in ls} |->
                        IF \E l \in ls : m \in DOMAIN r[l].placed
                        THEN r[CHOOSE l \in ls : m \in DOMAIN r[l].placed]
                               .placed[m]
                        ELSE placed[m]]
        /\ camera' = [l \in Layers |-> IF l \in ls THEN r[l].camera
                                       ELSE camera[l]]
  /\ drawn' = RenderCalls(layerData, Len(layerData))
  /\ lastFrame' = frame
  /\ repositioned' = {l \in Layers : Registered(l)
                                      /\ ~PrepareRenderSkips(l, frame)}
  /\ op' = HostCall("render")
  /\ UNCHANGED <<scene, meshes, materials, geometries, nextObj, pending,
                 terrain, isElevationNeedUpdate>>
  /\ UNCHANGED <<webGLRenderManager, renderer, layerData, managerLayerOnMap,
                 pointer, currentRaycastIntersection, emitted,
                 animationLoops>>
  /\ UNCHANGED itemVars

(***************************************************************************)
(* The host's terrain                                                      *)
(***************************************************************************)
\* terrain tiles load or change
TerrainChange(p, e) ==
  /\ Budget
  /\ terrain[p] # e
  /\ terrain' = [terrain EXCEPT ![p] = e]
  /\ op' = HostCall("terrainChange")
  /\ UNCHANGED <<items3D, scene, meshes, materials, geometries, nextObj,
                 pending, isElevationNeedUpdate, placed>>
  /\ UNCHANGED <<managerVars, itemVars>>

\* the terrainAnimationStart / terrainAnimationStop listeners of onAdd
TerrainAnimation(start) ==
  /\ Budget
  /\ isElevationNeedUpdate' =
       [l \in Layers |-> IF Registered(l) THEN start
                         ELSE isElevationNeedUpdate[l]]
  /\ isElevationNeedUpdate' # isElevationNeedUpdate
  /\ op' = HostCall(IF start THEN "terrainAnimationStart"
                    ELSE "terrainAnimationStop")
  /\ UNCHANGED <<items3D, scene, meshes, materials, geometries, nextObj,
                 pending, terrain, placed>>
  /\ UNCHANGED <<managerVars, itemVars>>

(***************************************************************************)
(* The WebGLRenderManager singleton                                        *)
(***************************************************************************)
\* the pointer positions of the model and, for each, the objects a ray
\* through it meets, nearest first: object 2 lies behind object 1
ScreenPoints == {"e", "a", "ab", "c", "d"}
RayHits(point) ==
  CASE point = "a" -> <<1>>
    [] point = "ab" -> <<1, 2>>
    [] point = "c" -> <<3>>
    [] point = "d" -> <<4>>
    [] OTHER -> <<>>

\* WebGLRenderManager.raycast: the intersections with the children of one
\* layer's scene, nearest first
Raycast(point, l) == SelectSeq(RayHits(point), LAMBDA m : m \in scene[l])

\* intersections[0] || null, as an object id
FirstHit(hits) == IF hits = <<>> THEN 0 ELSE Head(hits)

\* currentRaycastIntersection?.object === intersections[0]?.object, for a
\* recorded object and a first hit that are not both null
SameObject_never(current, first) == FALSE
SameObject(current, first) == current = first

\* the loop of handleMouseMove over layerData, from the i-th layer on:
\* either return of the loop body ends the whole handler
RECURSIVE MoveLoop(_, _, _, _)
MoveLoop(i, point, current, out) ==
  IF i > Len(layerData) THEN [current |-> current, emitted |-> out]
  ELSE
    LET l == layerData[i]
        first == FirstHit(Raycast(point, l))
    IN IF first = 0 /\ current = 0
       THEN [current |-> current, emitted |-> out]
       ELSE IF SameObject(current, first)
       THEN [current |-> current, emitted |-> out]
       ELSE MoveLoop(i + 1, point, first,
                     Append(out,
                            [layer |-> l,
                             type |-> IF current # 0 THEN "mouseleave"
                                      ELSE "mouseenter",
                             object |-> IF current # 0 THEN current
                                        ELSE first]))

\* layerData.delete(layerID)
RemoveLayer(ld, l) == SelectSeq(ld, LAMBDA x : x # l)

\* the test of dispose: layerData.size === 0
LastLayerGone_never(ld) == FALSE
LastLayerGone(ld) == Len(ld) = 0

\* the two checks at the head of the WebGLRenderManager constructor; map
\* and gl are TRUE when the handle is given
ConstructorThrows_never(map, gl) == FALSE
ConstructorThrows(map, gl) == ~gl \/ ~map

\* Layer3D.onAdd: map.telemetry is read first, which throws without a map;
\* addLayerToWebGLRenderManager builds the manager when the singleton is
\* null (its constructor throws without a gl context or a map), then
\* handleAddLayer registers the layer
OnAdd(l, map, gl) ==
  /\ Budget
  /\ ~Registered(l)
  /\ LET create == map /\ webGLRenderManager = "null"
         thrown == ~map \/ (create /\ ConstructorThrows(map, gl))
         built == create /\ ~ConstructorThrows(map, gl)
     IN /\ webGLRenderManager' = IF built THEN "instance"
                                 ELSE webGLRenderManager
        /\ renderer' = IF built THEN [built |-> renderer.built + 1,
                                      disposed |-> FALSE]
                       ELSE renderer
        /\ managerLayerOnMap' = IF built THEN TRUE ELSE managerLayerOnMap
        /\ layerData' = IF thrown THEN layerData ELSE Append(layerData, l)
        /\ op' = [HostCall("onAdd") EXCEPT
                    !.layer = l,
                    !.keys = {k \in {"map", "gl"} :
                                (k = "map" /\ map) \/ (k = "gl" /\ gl)},
                    !.result = IF thrown THEN "throw" ELSE "ok"]
  /\ UNCHANGED layerVars
  /\ UNCHANGED <<pointer, currentRaycastIntersection, emitted, camera, drawn, lastFrame,
                 repositioned, animationLoops>>
  /\ UNCHANGED itemVars

\* Layer3D.onRemove: clear, then WebGLRenderManager.dispose
OnRemove(l) ==
  /\ Budget
  /\ Registered(l)
  /\ Commit(ClearOp(World, l))
  /\ layerData' = RemoveLayer(layerData, l)
  /\ renderer' = IF LastLayerGone(layerData')
                 THEN [renderer EXCEPT !.disposed = TRUE] ELSE renderer
  /\ managerLayerOnMap' = IF LastLayerGone(layerData') THEN FALSE
                          ELSE managerLayerOnMap
  /\ op' = [HostCall("onRemove") EXCEPT !.layer = l]
  /\ UNCHANGED <<pending, terrain, isElevationNeedUpdate, placed>>
  /\ UNCHANGED <<webGLRenderManager, pointer, currentRaycastIntersection,
                 emitted, camera, drawn, lastFrame, repositioned, animationLoops>>
  /\ UNCHANGED itemVars

\* WebGLRenderManager.handleMouseMove, called by the map while the manager
\* layer is on it
HandleMouseMove(point) ==
  /\ Budget
  /\ managerLayerOnMap
  /\ LET r == MoveLoop(1, point, currentRaycastIntersection, <<>>)
     IN /\ currentRaycastIntersection' = r.current
        /\ emitted' = r.emitted
  /\ pointer' = point
  /\ op' = [HostCall("mousemove") EXCEPT !.id = point]
  /\ UNCHANGED layerVars
  /\ UNCHANGED <<webGLRenderManager, renderer, layerData, managerLayerOnMap,
                 camera, drawn, lastFrame, repositioned, animationLoops>>
  /\ UNCHANGED itemVars

\* object.userData.layerID of the objects of the staged scenes
LayerID(m) == IF m = 4 THEN "L2" ELSE "L1"

\* the object a click, dblclick, mousedown or mouseup at a point is
\* resolved to: the recorded intersection, whatever lies under the point
RecordedObject_fresh(current, point) ==
  IF Registered(LayerID(current))
  THEN FirstHit(Raycast(point, LayerID(current))) ELSE 0
RecordedObject(current, point) == current

\* the body shared by handleMouseClick, handleMouseDoubleClick,
\* handleMouseDown and handleMouseUp
DispatchRecorded(type, point) ==
  /\ Budget
  /\ managerLayerOnMap
  /\ LET object == RecordedObject(currentRaycastIntersection, point)
     IN emitted' = IF currentRaycastIntersection # 0 /\ object # 0
                      /\ Registered(LayerID(object))
                   THEN <<[layer |-> LayerID(object), type |-> type,
                           object |-> object]>>
                   ELSE <<>>
  /\ op' = [HostCall(type) EXCEPT !.id = point]
  /\ UNCHANGED layerVars
  /\ UNCHANGED <<webGLRenderManager, renderer, layerData, managerLayerOnMap,
                 pointer, currentRaycastIntersection, camera, drawn, lastFrame,
                 repositioned, animationLoops>>
  /\ UNCHANGED itemVars

\* WebGLRenderManager.handleMouseClick
HandleMouseClick(point) == DispatchRecorded("click", point)
\* WebGLRenderManager.handleMouseDoubleClick
HandleMouseDoubleClick(point) == DispatchRecorded("dblclick", point)
\* WebGLRenderManager.handleMouseDown
HandleMouseDown(point) == DispatchRecorded("mousedown", point)
\* WebGLRenderManager.handleMouseUp
HandleMouseUp(point) == DispatchRecorded("mouseup", point)

(***************************************************************************)
(* Item3D: its setters, modify, and its UI states                          *)
(***************************************************************************)
\* item3DStatePropertiesNames (the transform property is not modelled)
StatePropertiesNames ==
  {"opacity", "scale", "heading", "altitude", "lngLat", "wireframe",
   "pointSize", "elevation"}

\* item3DStateEventMap
StateEventNames == {"hover", "active", "selected"}
ActivateEvent(name) ==
  CASE name = "hover" -> "mouseenter"
    [] name = "active" -> "mousedown"
    [] name = "selected" -> "click"
DeactivateEvent(name) ==
  CASE name = "hover" -> "mouseleave"
    [] name = "active" -> "mouseup"
    [] name = "selected" -> "click"

\* item3DSetStatePropertyToMethodMap
MethodName(prop) ==
  CASE prop = "opacity" -> "setOpacity"
    [] prop = "scale" -> "setRelativeScale"
    [] prop = "heading" -> "setHeading"
    [] prop = "altitude" -> "setAltitude"
    [] prop = "lngLat" -> "setLngLat"
    [] prop = "wireframe" -> "setWireframe"
    [] prop = "pointSize" -> "setPointSize"
    [] prop = "elevation" -> "setElevation"

\* item3DStateToInstancePropertyMap, read on an instance
InstanceProperty(it, prop) ==
  CASE prop = "scale" -> it.relativeScale
    [] prop = "opacity" -> it.opacity
    [] prop = "heading" -> it.heading
    [] prop = "altitude" -> it.altitude
    [] prop = "lngLat" -> it.lngLat
    [] prop = "wireframe" -> it.wireframe
    [] prop = "pointSize" -> it.pointSize
    [] prop = "elevation" -> it.elevation

\* Object.assign(acc, props)
Assign(acc, props) ==
  [k \in DOMAIN acc \cup DOMAIN props |->
     IF k \in DOMAIN props THEN props[k] ELSE acc[k]]

\* Item3D.applyTransformUpdate
ApplyTransformUpdate(it) ==
  [it EXCEPT !.additionalTransformationMatrix =
     GetTransformationMatrix(it.relativeScale * it.scale, it.heading,
                             it.sourceOrientation)]

\* Item3D.setOpacity: the materials change, this.opacity does not
SetOpacity(it, opacity) ==
  IF it.kind \in {"mesh", "points"}
  THEN [it EXCEPT !.material.opacity = opacity,
                  !.material.transparent = TRUE]
  ELSE it

\* Item3D.setPointSize
SetPointSize(it, size) ==
  [it EXCEPT !.material.size = IF it.kind = "points" THEN size ELSE @,
             !.pointSize = size]

\* Item3D.setWireframe
SetWireframe(it, wireframe) ==
  [it EXCEPT !.material.wireframe = IF it.kind = "mesh" THEN wireframe ELSE @,
             !.wireframe = wireframe]

\* Item3D.setRelativeScale
SetRelativeScale(it, scale) ==
  ApplyTransformUpdate([it EXCEPT !.relativeScale = scale])

\* Item3D.setHeading
SetHeading(it, heading) == ApplyTransformUpdate([it EXCEPT !.heading = heading])

\* Item3D.setAltitude, setLngLat and setElevation
SetAltitude(it, altitude) == [it EXCEPT !.altitude = altitude]
SetLngLat(it, lngLat) == [it EXCEPT !.lngLat = lngLat]
SetElevation(it, elevation) == [it EXCEPT !.elevation = elevation]

\* method.call(this, propertyValue, true) for the method of a property
CallMethod(it, prop, value) ==
  CASE prop = "opacity" -> SetOpacity(it, value)
    [] prop = "scale" -> SetRelativeScale(it, value)
    [] prop = "heading" -> SetHeading(it, value)
    [] prop = "altitude" -> SetAltitude(it, value)
    [] prop = "lngLat" -> SetLngLat(it, value)
    [] prop = "wireframe" -> SetWireframe(it, value)
    [] prop = "pointSize" -> SetPointSize(it, value)
    [] prop = "elevation" -> SetElevation(it, value)

\* the loop over Object.entries(sum) of the two commit functions: the
\* entries that have a method are handed to it (the methods write disjoint
\* fields, so the order of the entries does not show in the result)
RECURSIVE CallMethods(_, _, _)
CallMethods(it, sum, keys) ==
  IF keys = {} THEN it
  ELSE LET k == CHOOSE k \in keys : TRUE
       IN CallMethods(CallMethod(it, k, sum[k]), sum, keys \ {k})

\* the setters a commit function invokes, with their arguments
Invocations(sum) ==
  LET keys == DOMAIN sum \cap StatePropertiesNames
      methods == {MethodName(k) : k \in keys}
  IN [m \in methods |-> sum[CHOOSE k \in keys : MethodName(k) = m]]

\* Item3D.modify
Modify(it, o) ==
  LET i0 == IF Has(o, "visible") THEN [it EXCEPT !.visible = o.v.visible]
            ELSE it
      i1 == IF Has(o, "lngLat")
            THEN [i0 EXCEPT
                    !.lngLat = o.v.lngLat,
                    !.elevation = OrZero(QueryTerrainElevation(o.v.lngLat))]
            ELSE i0
      i2 == IF Has(o, "scale") THEN [i1 EXCEPT !.scale = o.v.scale] ELSE i1
      i3 == IF Has(o, "altitude") THEN [i2 EXCEPT !.altitude = o.v.altitude]
            ELSE i2
      i4 == IF Has(o, "altitudeReference")
            THEN [i3 EXCEPT
                    !.altitudeReference = o.v.altitudeReference,
                    !.elevation = OrZero(QueryTerrainElevation(i3.lngLat))]
            ELSE i3
      i5 == IF Has(o, "heading") THEN [i4 EXCEPT !.heading = o.v.heading]
            ELSE i4
      i6 == IF Has(o, "scale") \/ Has(o, "heading")
            THEN ApplyTransformUpdate(i5) ELSE i5
      i7 == IF Has(o, "opacity") THEN SetOpacity(i6, o.v.opacity) ELSE i6
      i8 == IF Has(o, "pointSize") THEN SetPointSize(i7, o.v.pointSize)
            ELSE i7
  IN IF Has(o, "wireframe") THEN SetWireframe(i8, o.v.wireframe) ELSE i8

\* Item3D.addActiveState
AddActiveState_push(it, name) ==
  [it EXCEPT !.activeStates = Append(@, name)]
AddActiveState(it, name) ==
  IF \E i \in 1..Len(it.activeStates) : it.activeStates[i] = name THEN it
  ELSE [it EXCEPT !.activeStates = Append(@, name)]

\* Item3D.removeActiveState
RemoveActiveState(it, name) ==
  [it EXCEPT !.activeStates = SelectSeq(@, LAMBDA s : s # name)]

\* this.currentStates.get(name)?.props ?? {}
PropsOf(states, name) == IF name \in DOMAIN states THEN states[name] ELSE Empty

\* the reduce of commitActiveState: Object.assign(acc, [name, props], props)
\* copies the pair under the keys "0" and "1" and then the props of the
\* state being activated, for each active state in turn
SumOfAllStatesProps(it, props) ==
  LET last == it.activeStates[Len(it.activeStates)]
  IN Assign([k \in {"0", "1"} |->
               IF k = "0" THEN last ELSE PropsOf(it.states, last)],
            props)

\* commitActiveState of the handler of state name, registered with props
CommitActiveState(it, name, props) ==
  LET i1 == AddActiveState(it, name)
      sum == SumOfAllStatesProps(i1, props)
  IN [item |-> CallMethods(i1, sum, DOMAIN sum \cap StatePropertiesNames),
      invoked |-> Invocations(sum)]

RECURSIVE AssignAll(_)
AssignAll(ps) ==
  IF ps = <<>> THEN Empty
  ELSE Assign(AssignAll(SubSeq(ps, 1, Len(ps) - 1)), ps[Len(ps)])

\* the reduce of commitInactiveState: the props of the states that are
\* still active, folded in the order of the list
SumOfAllStates_first(states, names) ==
  AssignAll(<<PropsOf(states, names[1])>>)
SumOfAllStates(states, names) ==
  AssignAll([i \in 1..Len(names) |-> PropsOf(states, names[i])])

\* commitInactiveState of the handler of state name
CommitInactiveState(it, name) ==
  LET i1 == RemoveActiveState(it, name)
      sum == SumOfAllStates(i1.states, i1.activeStates)
  IN [item |-> CallMethods(i1, sum, DOMAIN sum \cap StatePropertiesNames),
      invoked |-> Invocations(sum)]

\* Item3D.addItem3DStateChangeHandler: the two listeners it registers
StateChangeHandlers(name, props) ==
  IF name \notin StateEventNames \/ name = "default" THEN <<>>
  ELSE <<[type |-> ActivateEvent(name), name |-> name, commit |-> "active",
          props |-> props],
         [type |-> DeactivateEvent(name), name |-> name,
          commit |-> "inactive", props |-> props]>>

\* Item3D.setStates with an object whose entries are given in order
RECURSIVE SetStates(_, _)
SetStates(it, entries) ==
  IF entries = <<>> THEN it
  ELSE
    LET e == Head(entries)
        hs == StateChangeHandlers(e.name, e.props)
    IN SetStates([it EXCEPT
                    !.listeners = @ \o hs,
                    !.registeredEventTypes =
                       @ \o [i \in 1..Len(hs) |-> hs[i].type],
                    !.states = (e.name :> e.props) @@ @],
                 Tail(entries))

\* Item3D.getInitValueForProperty: TRUE when the instance value is truthy
HasInitValue(it, prop) ==
  CASE prop = "lngLat" -> TRUE
    [] prop = "wireframe" -> it.wireframe
    [] OTHER -> InstanceProperty(it, prop) # 0

\* Item3D.initDefaultState
InitDefaultState(it) ==
  [it EXCEPT !.states =
     ("default" :> [prop \in {p \in StatePropertiesNames :
                                HasInitValue(it, p)} |->
                      InstanceProperty(it, prop)]) @@ @]

\* new Item3D(parentLayer, {scale, states, ...options}) for an object of
\* the given kind, whose materials carry what the layer applied on add
NewItem3D(id, kind, v, entries) ==
  LET fields ==
        [id |-> id, kind |-> kind, visible |-> v.visible,
         lngLat |-> v.lngLat, elevation |-> 0, altitude |-> v.altitude,
         scale |-> v.scale, relativeScale |-> 1, heading |-> v.heading,
         sourceOrientation |-> v.sourceOrientation,
         altitudeReference |-> v.altitudeReference, opacity |-> v.opacity,
         wireframe |-> v.wireframe, pointSize |-> v.pointSize,
         material |->
           [opacity |-> v.opacity, transparent |-> v.opacity # 100,
            wireframe |-> kind = "mesh" /\ v.wireframe,
            size |-> IF kind = "points" THEN v.pointSize ELSE 1],
         additionalTransformationMatrix |->
           GetTransformationMatrix(v.scale, v.heading, v.sourceOrientation),
         states |-> Empty, activeStates |-> <<"default">>,
         listeners |-> <<>>, registeredEventTypes |-> <<>>,
         nextUpdateTick |-> 0]
  IN InitDefaultState(SetStates(fields, entries))

\* Evented.fire: the listeners of the type run in the order they were
\* registered; a callback of the application leaves the item as it is
RECURSIVE RunListeners(_, _, _)
RunListeners(r, ls, type) ==
  IF ls = <<>> THEN r
  ELSE
    LET h == Head(ls)
        c == IF h.commit = "active"
             THEN CommitActiveState(r.item, h.name, h.props)
             ELSE IF h.commit = "inactive"
             THEN CommitInactiveState(r.item, h.name)
             ELSE [item |-> r.item, invoked |-> Empty]
    IN IF h.type # type THEN RunListeners(r, Tail(ls), type)
       ELSE RunListeners([item |-> c.item,
                          invoked |-> Assign(r.invoked, c.invoked)],
                         Tail(ls), type)

\* Item3D.cueUpdate: a frame callback is requested unless one is awaited
\* (nextUpdateTick is 0 for null, 1 for the handle of the request)
CueUpdate(it) ==
  IF it.nextUpdateTick # 0 THEN it ELSE [it EXCEPT !.nextUpdateTick = 1]

\* a pointer event reaches the item: every setter the listeners call is
\* called with cueRepaint true
Fire(type) ==
  /\ Budget
  /\ item3D.id # ""
  /\ LET r == RunListeners([item |-> item3D, invoked |-> Empty],
                           item3D.listeners, type)
     IN /\ item3D' = IF r.invoked = Empty THEN r.item ELSE CueUpdate(r.item)
        /\ invoked' = r.invoked
  /\ repaints' = repaints
  /\ op' = [HostCall("fire") EXCEPT !.id = type]
  /\ UNCHANGED <<layerVars, managerVars>>

\* Evented.off: the listener, found by identity, leaves the list; of equal
\* records the last one is the one registered last
RemoveListener(ls, h) ==
  IF ~\E i \in 1..Len(ls) : ls[i] = h THEN ls
  ELSE LET i == CHOOSE i \in 1..Len(ls) :
                  ls[i] = h /\ \A j \in i + 1..Len(ls) : ls[j] # h
       IN SubSeq(ls, 1, i - 1) \o SubSeq(ls, i + 1, Len(ls))

\* Item3D.off: every entry of the type leaves registeredEventTypes
Off(it, h) ==
  [it EXCEPT !.registeredEventTypes = SelectSeq(@, LAMBDA t : t # h.type),
             !.listeners = RemoveListener(@, h)]

\* the cleanup function stored with a state: nothing for default and for
\* a name without events, else the two listeners go and the state is
\* committed inactive
Cleanup(it, name) ==
  LET hs == StateChangeHandlers(name, it.states[name])
  IN IF hs = <<>> THEN [item |-> it, invoked |-> Empty]
     ELSE CommitInactiveState(Off(Off(it, hs[1]), hs[2]), name)

\* Item3D.removeState
RemoveState(it, name) ==
  IF name \notin DOMAIN it.states THEN [item |-> it, invoked |-> Empty]
  ELSE LET c == Cleanup(it, name)
       IN [item |-> [c.item EXCEPT
                       !.states = [n \in DOMAIN it.states \ {name} |->
                                     it.states[n]]],
           invoked |-> c.invoked]

\* the application calls item.addState or item.setStates (entries in order)
CallSetStates(kind, entries) ==
  /\ Budget
  /\ item3D.id # ""
  /\ item3D' = SetStates(item3D, entries)
  /\ invoked' = Empty
  /\ repaints' = repaints
  /\ op' = [HostCall(kind) EXCEPT !.id = entries[1].name]
  /\ UNCHANGED <<layerVars, managerVars>>

\* the application calls item.removeState
CallRemoveState(name) ==
  /\ Budget
  /\ item3D.id # ""
  /\ LET r == RemoveState(item3D, name)
     IN /\ item3D' = IF r.invoked = Empty THEN r.item ELSE CueUpdate(r.item)
        /\ invoked' = r.invoked
  /\ repaints' = repaints
  /\ op' = [HostCall("removeState") EXCEPT !.id = name]
  /\ UNCHANGED <<layerVars, managerVars>>

\* the application calls item.setRelativeScale
CallSetRelativeScale(scale) ==
  /\ Budget
  /\ item3D.id # ""
  /\ item3D' = CueUpdate(SetRelativeScale(item3D, scale))
  /\ invoked' = [m \in {"setRelativeScale"} |-> scale]
  /\ repaints' = repaints
  /\ op' = HostCall("setRelativeScale")
  /\ UNCHANGED <<layerVars, managerVars>>

\* if (cueRepaint) this.cueUpdate(), the last statement of every setter
Cue_always(it, cueRepaint) == CueUpdate(it)
Cue(it, cueRepaint) == IF cueRepaint THEN CueUpdate(it) ELSE it

\* the application calls the setter of a property with a repaint flag
CallSetter(prop, value, cueRepaint) ==
  /\ Budget
  /\ item3D.id # ""
  /\ item3D' = Cue(CallMethod(item3D, prop, value), cueRepaint)
  /\ invoked' = [m \in {MethodName(prop)} |-> value]
  /\ repaints' = repaints
  /\ op' = [HostCall("setter") EXCEPT
             !.id = prop,
             !.keys = IF cueRepaint THEN {"cueRepaint"} ELSE {}]
  /\ UNCHANGED <<layerVars, managerVars>>

\* Item3D.setScale
SetScale(it, scale) == ApplyTransformUpdate([it EXCEPT !.scale = scale])

\* Item3D.setSourceOrientation: the field is assigned and nothing else
SetSourceOrientation(it, sourceOrientation) ==
  [it EXCEPT !.sourceOrientation = sourceOrientation]

\* the application calls item.setScale
CallSetScale(scale, cueRepaint) ==
  /\ Budget
  /\ item3D.id # ""
  /\ item3D' = Cue(SetScale(item3D, scale), cueRepaint)
  /\ invoked' = [m \in {"setScale"} |-> scale]
  /\ repaints' = repaints
  /\ op' = [HostCall("setter") EXCEPT
             !.id = "scale",
             !.keys = IF cueRepaint THEN {"cueRepaint"} ELSE {}]
  /\ UNCHANGED <<layerVars, managerVars>>

\* the application calls item.setSourceOrientation
CallSetSourceOrientation(sourceOrientation, cueRepaint) ==
  /\ Budget
  /\ item3D.id # ""
  /\ item3D' = Cue(SetSourceOrientation(item3D, sourceOrientation), cueRepaint)
  /\ invoked' = [m \in {"setSourceOrientation"} |-> sourceOrientation]
  /\ repaints' = repaints
  /\ op' = [HostCall("setter") EXCEPT
             !.id = "sourceOrientation",
             !.keys = IF cueRepaint THEN {"cueRepaint"} ELSE {}]
  /\ UNCHANGED <<layerVars, managerVars>>

\* the browser runs the frame callback cueUpdate requested
AnimationFrame ==
  /\ Budget
  /\ item3D.id # ""
  /\ item3D.nextUpdateTick # 0
  /\ repaints' = repaints + 1
  /\ item3D' = [item3D EXCEPT !.nextUpdateTick = 0]
  /\ invoked' = Empty
  /\ op' = HostCall("animationFrame")
  /\ UNCHANGED <<layerVars, managerVars>>

\* the application calls item.modify
CallModify(o) ==
  /\ Budget
  /\ item3D.id # ""
  /\ item3D' = Modify(item3D, o)
  /\ invoked' = Empty
  /\ repaints' = repaints + 1
  /\ op' = [HostCall("modify") EXCEPT !.id = item3D.id, !.keys = o.keys]
  /\ UNCHANGED <<layerVars, managerVars>>

(***************************************************************************)
(* Animations of an item and the animation loops of the render manager     *)
(***************************************************************************)
AnimationNames == {"walk", "run"}
AnimationModes == {"continuous", "manual"}

\* an action of the mixer: AnimationAction.play sets it running
Stopped == [running |-> FALSE, paused |-> FALSE]

\* the part of the Item3D constructor that takes the animation options: the
\* parent layer, the mode, the loaded clips by name and the mixer
WithAnimations(it, layer, mode, names) ==
  [k \in DOMAIN it \cup {"parentLayer", "animationMode", "animationMap",
                          "mixerTime"} |->
     CASE k = "parentLayer" -> layer
       [] k = "animationMode" -> mode
       [] k = "animationMap" -> [n \in names |-> Stopped]
       [] k = "mixerTime" -> 0
       [] OTHER -> it[k]]

\* the id playAnimation and stopAnimation give the loop of one animation
AnimationLoopID(it, animationName) ==
  it.parentLayer \o "_" \o it.id \o "_" \o animationName

InSeq(q, x) == \E i \in 1..Len(q) : q[i] = x
Without(q, x) == SelectSeq(q, LAMBDA y : y # x)
Occurrences(q, x) == Cardinality({i \in 1..Len(q) : q[i] = x})

\* WebGLRenderManager.addAnimationLoop: an id that is already there is kept
HasLoop_never(loops, id) == FALSE
HasLoop(loops, id) == InSeq(loops, id)

AddAnimationLoop(loops, id) ==
  IF HasLoop(loops, id) THEN loops ELSE Append(loops, id)

\* WebGLRenderManager.removeAnimationLoop: the id is looked up among the
\* registered layers first, and nothing is deleted when no layer has it
LoopLayerFound(ld, id) == InSeq(ld, id)

RemoveAnimationLoop(loops, ld, id) ==
  IF ~LoopLayerFound(ld, id) THEN loops ELSE Without(loops, id)

ItemCall(kind, name) ==
  [HostCall(kind) EXCEPT !.layer = item3D.parentLayer, !.id = name]

\* Item3D.playAnimation
PlayAnimation(animationName) ==
  /\ Budget
  /\ item3D.id # ""
  /\ IF animationName \notin DOMAIN item3D.animationMap
       THEN UNCHANGED <<item3D, animationLoops>>
       ELSE /\ item3D' = [item3D EXCEPT !.animationMap[animationName] =
                                          [running |-> TRUE, paused |-> FALSE]]
            /\ animationLoops' =
                 IF item3D.animationMode = "continuous"
                   THEN AddAnimationLoop(animationLoops,
                                         AnimationLoopID(item3D, animationName))
                   ELSE animationLoops
  /\ op' = ItemCall("playAnimation", animationName)
  /\ UNCHANGED <<invoked, repaints, layerVars, webGLRenderManager, renderer,
                 layerData, managerLayerOnMap, pointer,
                 currentRaycastIntersection, emitted, camera, drawn, lastFrame,
                 repositioned>>

\* Item3D.pauseAnimation
PauseAnimation(animationName) ==
  /\ Budget
  /\ item3D.id # ""
  /\ item3D' = IF animationName \notin DOMAIN item3D.animationMap
                 THEN item3D
                 ELSE [item3D EXCEPT !.animationMap[animationName].paused = TRUE]
  /\ op' = ItemCall("pauseAnimation", animationName)
  /\ UNCHANGED <<invoked, repaints, layerVars, managerVars>>

\* Item3D.stopAnimation
StopAnimation(animationName) ==
  /\ Budget
  /\ item3D.id # ""
  /\ animationLoops' =
       IF animationName \notin DOMAIN item3D.animationMap
         THEN animationLoops
         ELSE RemoveAnimationLoop(animationLoops, layerData,
                                  AnimationLoopID(item3D, animationName))
  /\ op' = ItemCall("stopAnimation", animationName)
  /\ UNCHANGED <<itemVars, layerVars, webGLRenderManager, renderer,
                 layerData, managerLayerOnMap, pointer,
                 currentRaycastIntersection, emitted, camera, drawn, lastFrame,
                 repositioned>>

\* Item3D.updateAnimation: the mixer advances by one delta
UpdateAnimation ==
  /\ Budget
  /\ item3D.id # ""
  /\ item3D' = [item3D EXCEPT !.mixerTime = @ + 1]
  /\ repaints' = repaints + 1
  /\ op' = ItemCall("updateAnimation", "")
  /\ UNCHANGED <<invoked, layerVars, managerVars>>

\* Item3D.setAnimationTime
SetAnimationTime(time) ==
  /\ Budget
  /\ item3D.id # ""
  /\ item3D' = [item3D EXCEPT !.mixerTime = time]
  /\ repaints' = repaints + 1
  /\ op' = ItemCall("setAnimationTime", "")
  /\ UNCHANGED <<invoked, layerVars, managerVars>>

\* the item whose playAnimation registered a loop under the id
LoopOwner(id) ==
  CHOOSE o \in [layer : Layers, item : {"m1", "m2", "m3"}] :
    \E name \in AnimationNames :
      id = o.layer \o "_" \o o.item \o "_" \o name

\* parentLayer.clock.getDelta() in the i-th callback of a tick, in ticks:
\* the clock of a layer gives the time since it was last asked, which is
\* the time since the previous tick for the first callback of the layer
\* and nothing for every later one
GetDelta(loops, i) ==
  IF \E j \in 1..(i - 1) :
       LoopOwner(loops[j]).layer = LoopOwner(loops[i]).layer
  THEN 0 ELSE 1

\* the callbacks of a tick that belong to one item
LoopsOf(loops, owner) ==
  {i \in 1..Len(loops) : LoopOwner(loops[i]) = owner}

\* what the mixer of an item is advanced by in one tick: the sum of the
\* deltas its callbacks hand to animationMixer.update
MixerAdvance(loops, owner) ==
  Cardinality({i \in LoopsOf(loops, owner) : GetDelta(loops, i) = 1})

\* WebGLRenderManager.animate, the renderer's frame callback: every
\* registered loop is called, and each one is Item3D.animate of its item,
\* which asks the clock of the parent layer for the delta, advances the
\* mixer by it and repaints, in continuous mode only
Animate ==
  /\ Budget
  /\ webGLRenderManager = "instance"
  /\ item3D.id # ""
  /\ LET self == [layer |-> item3D.parentLayer, item |-> item3D.id]
         continuous == item3D.animationMode = "continuous"
     IN /\ item3D' = [item3D EXCEPT
                        !.mixerTime =
                           @ + IF continuous
                               THEN MixerAdvance(animationLoops, self)
                               ELSE 0]
        /\ repaints' = repaints
                         + IF continuous
                           THEN Cardinality(LoopsOf(animationLoops, self))
                           ELSE 0
  /\ emitted' = [i \in 1..Len(animationLoops) |->
                   [layer |-> LoopOwner(animationLoops[i]).layer,
                    type |-> "animationLoop",
                    object |-> animationLoops[i],
                    delta |-> GetDelta(animationLoops, i)]]
  /\ op' = ItemCall("animate", "")
  /\ UNCHANGED <<invoked, layerVars, webGLRenderManager, renderer, layerData,
                 managerLayerOnMap, pointer, currentRaycastIntersection,
                 camera, drawn, lastFrame, repositioned, animationLoops>>

(***************************************************************************)
(* Specification of one attached layer and its registry                    *)
(***************************************************************************)
NoCamera == [origin |-> "", main |-> ""]
NoItem3D == [id |-> ""]

InitLayerSide ==
  /\ items3D = [l \in Layers |-> Empty]
  /\ scene = [l \in Layers |-> {}]
  /\ meshes = Empty
  /\ materials = Empty
  /\ geometries = Empty
  /\ nextObj = 1
  /\ pending = <<>>
  /\ placed = Empty
  /\ camera = [l \in Layers |-> NoCamera]
  /\ drawn = <<>>
  /\ lastFrame = NoFrame
  /\ repositioned = {}

\* layer L1 has been added to the map: onAdd built the manager
InitManagerSide ==
  /\ webGLRenderManager = "instance"
  /\ renderer = [built |-> 1, disposed |-> FALSE]
  /\ layerData = <<"L1">>
  /\ managerLayerOnMap = TRUE
  /\ pointer = "e"
  /\ currentRaycastIntersection = 0
  /\ emitted = <<>>
  /\ animationLoops = <<>>
  /\ op = [kind |-> "onAdd", layer |-> "L1", id |-> "", keys |-> {},
           url |-> <<>>, source |-> "", result |-> "ok", n |-> 0]

InitAttached ==
  /\ InitLayerSide
  /\ InitManagerSide
  /\ item3D = NoItem3D
  /\ invoked = Empty
  /\ repaints = 0

\* the option objects the registry operations are called with
RichOptions ==
  [keys |-> {"lngLat", "altitude", "altitudeReference", "opacity",
             "pointSize", "wireframe", "visible"},
   v |-> ValA]
AddOptions == {NoOptions, RichOptions}
ModifyOptions ==
  {[keys |-> {"lngLat", "altitude", "scale", "heading"}, v |-> ValA],
   [keys |-> {"altitudeReference", "opacity", "pointSize", "wireframe",
              "visible"},
    v |-> ValA]}
OverrideOptions ==
  {NoOptions, [keys |-> {"altitude"}, v |-> ValA],
   [keys |-> {"lngLat", "scale", "heading", "visible"}, v |-> ValA]}

\* no terrain is loaded
InitLayer ==
  /\ InitAttached
  /\ terrain = [p \in Positions |-> Null]
  /\ isElevationNeedUpdate = [l \in Layers |-> FALSE]

NextLayer ==
  \/ \E id \in Ids, kind \in {"mesh", "points"}, o \in AddOptions :
       AddMesh("L1", id, kind, o)
  \/ \E id \in Ids : AddPointLight("L1", id, NoOptions)
  \/ \E sourceId \in Ids, id \in Ids, o \in OverrideOptions :
       CloneMesh("L1", sourceId, id, o)
  \/ \E id \in Ids, url \in Urls : AddMeshFromURL("L1", id, url, NoOptions)
  \/ \E i \in 1..MaxPending : LoadResolve(i, {"walk"})
  \/ \E i \in 1..MaxPending : LoadReject(i)
  \/ \E id \in Ids, o \in ModifyOptions : ModifyMesh("L1", id, o)
  \/ \E id \in Ids : ModifyPointLight("L1", id, RichOptions)
  \/ \E id \in Ids : RemoveMesh("L1", id)
  \/ Clear("L1")

SpecLayer == InitLayer /\ [][NextLayer]_vars


(***************************************************************************)
(* Specification of the render pass over one layer and the host's terrain  *)
(***************************************************************************)
InitRender ==
  /\ InitAttached
  /\ terrain \in [Positions -> {Null, 5}]
  /\ isElevationNeedUpdate \in {[l \in Layers |-> b /\ l = "L1"] :
                                  b \in BOOLEAN}

PlacementAddOptions ==
  {[keys |-> {"altitude"}, v |-> ValA],
   [keys |-> {"lngLat", "altitude", "altitudeReference"}, v |-> ValA],
   [keys |-> {"lngLat", "altitude", "altitudeReference"}, v |-> ValB]}
PlacementModifyOptions ==
  {[keys |-> {"lngLat", "altitude"}, v |-> ValA],
   [keys |-> {"lngLat", "altitude"}, v |-> ValB],
   [keys |-> {"altitudeReference"}, v |-> ValA],
   [keys |-> {"altitude"}, v |-> ValB]}

NextRender ==
  \/ \E id \in Ids, o \in PlacementAddOptions : AddMesh("L1", id, "mesh", o)
  \/ AddPointLight("L1", "m2", NoOptions)
  \/ \E id \in Ids, o \in PlacementModifyOptions : ModifyMesh("L1", id, o)
  \/ \E frame \in Frames : Render(frame)
  \/ \E p \in Positions, e \in Elevations \cup {Null} : TerrainChange(p, e)
  \/ \E start \in BOOLEAN : TerrainAnimation(start)

SpecRender == InitRender /\ [][NextRender]_vars

(***************************************************************************)
(* Specification of attaching and detaching layers and of pointer moves    *)
(* over staged scenes                                                      *)
(***************************************************************************)
EmptyWorld ==
  [items3D |-> [l \in Layers |-> Empty], scene |-> [l \in Layers |-> {}],
   meshes |-> Empty, materials |-> Empty, geometries |-> Empty,
   nextObj |-> 1, thrown |-> FALSE, noop |-> FALSE]

\* the world after the meshes named by a sequence of <<layer, id>> pairs
\* were added, in that order, by addMesh
RECURSIVE Staged(_)
Staged(adds) ==
  IF adds = <<>> THEN EmptyWorld
  ELSE LET w == Staged(SubSeq(adds, 1, Len(adds) - 1))
           a == adds[Len(adds)]
       IN AddMeshOp(NewObject(w, "mesh", <<>>), a[1], a[2], w.nextObj,
                    NoOptions)

\* nothing attached; L1 attached with objects 1, 2 and 3; L1 and L2
\* attached, L2 with object 4
ManagerConfigs ==
  {[layers |-> <<>>, adds |-> <<>>],
   [layers |-> <<"L1">>,
    adds |-> <<<<"L1", "m1">>, <<"L1", "m2">>, <<"L1", "m3">>>>],
   [layers |-> <<"L1", "L2">>,
    adds |-> <<<<"L1", "m1">>, <<"L1", "m2">>, <<"L1", "m3">>,
               <<"L2", "m1">>>>]}

InitManager ==
  /\ terrain = [p \in Positions |-> Null]
  /\ isElevationNeedUpdate = [l \in Layers |-> FALSE]
  /\ pending = <<>>
  /\ placed = Empty
  /\ camera = [l \in Layers |-> NoCamera]
  /\ drawn = <<>>
  /\ lastFrame = NoFrame
  /\ repositioned = {}
  /\ \E cfg \in ManagerConfigs :
       LET w == Staged(cfg.adds)
           attached == cfg.layers # <<>>
       IN /\ items3D = w.items3D
          /\ scene = w.scene
          /\ meshes = w.meshes
          /\ materials = w.materials
          /\ geometries = w.geometries
          /\ nextObj = w.nextObj
          /\ layerData = cfg.layers
          /\ webGLRenderManager = IF attached THEN "instance" ELSE "null"
          /\ renderer = [built |-> IF attached THEN 1 ELSE 0,
                         disposed |-> FALSE]
          /\ managerLayerOnMap = attached
  /\ pointer = "e"
  /\ currentRaycastIntersection = 0
  /\ emitted = <<>>
  /\ animationLoops = <<>>
  /\ item3D = NoItem3D
  /\ invoked = Empty
  /\ repaints = 0
  /\ op = [kind |-> "init", layer |-> "", id |-> "", keys |-> {},
           url |-> <<>>, source |-> "", result |-> "ok", n |-> 0]

NextManager ==
  \/ \E l \in Layers, map \in BOOLEAN, gl \in BOOLEAN : OnAdd(l, map, gl)
  \/ \E l \in Layers : OnRemove(l)
  \/ \E point \in ScreenPoints : HandleMouseMove(point)
  \/ \E point \in ScreenPoints : HandleMouseClick(point)
  \/ \E point \in ScreenPoints : HandleMouseDoubleClick(point)
  \/ \E point \in ScreenPoints : HandleMouseDown(point)
  \/ \E point \in ScreenPoints : HandleMouseUp(point)

SpecManager == InitManager /\ [][NextManager]_vars

(***************************************************************************)
(* Specification of the host's frames over several layers: attach, detach, *)
(* render passes and pointer moves                                         *)
(***************************************************************************)
NextFrame ==
  \/ \E l \in Layers : OnAdd(l, TRUE, TRUE)
  \/ \E l \in Layers : OnRemove(l)
  \/ \E frame \in Frames : Render(frame)
  \/ \E point \in ScreenPoints : HandleMouseMove(point)

SpecFrame == InitManager /\ [][NextFrame]_vars

(***************************************************************************)
(* Specification of modify on a registered item and on an Item3D           *)
(***************************************************************************)
ModifiableKeys == OptionKeys \ {"sourceOrientation"}
FullOptions == [keys |-> OptionKeys, v |-> ValA]

\* one property alone, every property but one, and nothing
ModifyManyOptions ==
  {[keys |-> {k}, v |-> v] : k \in ModifiableKeys, v \in {ValA, ValB}}
    \cup {[keys |-> ModifiableKeys \ {k}, v |-> ValA] : k \in ModifiableKeys}
    \cup {NoOptions}

InitModify ==
  /\ terrain = [p \in Positions |-> IF p = "p0" THEN 5 ELSE Null]
  /\ isElevationNeedUpdate = [l \in Layers |-> FALSE]
  /\ pending = <<>>
  /\ placed = Empty
  /\ camera = [l \in Layers |-> NoCamera]
  /\ drawn = <<>>
  /\ lastFrame = NoFrame
  /\ repositioned = {}
  /\ InitManagerSide
  /\ \E kind \in {"mesh", "points"}, o \in {NoOptions, FullOptions} :
       LET w == AddMeshOp(NewObject(EmptyWorld, kind, <<>>), "L1", "m1", 1, o)
       IN /\ items3D = w.items3D
          /\ scene = w.scene
          /\ meshes = w.meshes
          /\ materials = w.materials
          /\ geometries = w.geometries
          /\ nextObj = w.nextObj
          /\ item3D = NewItem3D("m1", kind, o.v, <<>>)
  /\ invoked = Empty
  /\ repaints = 0

NextModify ==
  \/ \E o \in ModifyManyOptions :
       op.n < MaxModifies /\ ModifyMesh("L1", "m1", o)
  \/ \E o \in ModifyManyOptions : op.n < MaxModifies /\ CallModify(o)

SpecModify == InitModify /\ [][NextModify]_vars

(***************************************************************************)
(* Specification of the UI states of one Item3D                            *)
(***************************************************************************)
\* the states option of the item, as the entries of the object in order
StateConfigs ==
  {<<[name |-> "hover", props |-> [scale |-> 2]],
     [name |-> "active", props |-> [scale |-> 3]]>>,
   <<[name |-> "hover",
      props |-> [scale |-> 2, heading |-> 90, opacity |-> 50]],
     [name |-> "active", props |-> [scale |-> 3, opacity |-> 20]]>>,
   <<[name |-> "active", props |-> [heading |-> 45]],
     [name |-> "hover", props |-> [heading |-> 90, altitude |-> 30]]>>}

PointerEvents == {"mouseenter", "mouseleave", "mousedown", "mouseup"}

InitItem ==
  /\ InitLayerSide
  /\ InitManagerSide
  /\ terrain = [p \in Positions |-> Null]
  /\ isElevationNeedUpdate = [l \in Layers |-> FALSE]
  /\ item3D \in {NewItem3D("m1", kind, v, entries) :
                   kind \in {"mesh", "points"}, v \in {ValA, ValB},
                   entries \in StateConfigs}
  /\ invoked = Empty
  /\ repaints = 0

NextItem ==
  \/ \E type \in PointerEvents : Fire(type)
  \/ CallSetRelativeScale(5)

SpecItem == InitItem /\ [][NextItem]_vars

(***************************************************************************)
(* Specification of one Item3D that only pointer events reach              *)
(***************************************************************************)
NextPointer == \E type \in PointerEvents : Fire(type)

SpecPointer == InitItem /\ [][NextPointer]_vars

(***************************************************************************)
(* Specification of an Item3D whose states option has other names as well  *)
(***************************************************************************)
NamedStateConfigs ==
  {<<[name |-> "default", props |-> [scale |-> 2]],
     [name |-> "hover", props |-> [scale |-> 3]]>>,
   <<[name |-> "selected", props |-> [scale |-> 2, opacity |-> 50]],
     [name |-> "active", props |-> [scale |-> 3]]>>,
   <<[name |-> "focus", props |-> [heading |-> 45]],
     [name |-> "hover", props |-> [heading |-> 90]]>>}

ItemEvents == PointerEvents \cup {"click", "dblclick"}

InitStates ==
  /\ InitLayerSide
  /\ InitManagerSide
  /\ terrain = [p \in Positions |-> Null]
  /\ isElevationNeedUpdate = [l \in Layers |-> FALSE]
  /\ item3D \in {NewItem3D("m1", kind, v, entries) :
                   kind \in {"mesh", "points"}, v \in {ValA, ValB},
                   entries \in NamedStateConfigs}
  /\ invoked = Empty
  /\ repaints = 0

NextStates == \E type \in ItemEvents : Fire(type)

SpecStates == InitStates /\ [][NextStates]_vars

(***************************************************************************)
(* Specification of the setters of one Item3D and the browser's frames     *)
(***************************************************************************)
SetterCalls ==
  {[prop |-> "lngLat", value |-> "p0"],
   [prop |-> "altitude", value |-> 30],
   [prop |-> "heading", value |-> 45]}

InitRepaint ==
  /\ InitLayerSide
  /\ InitManagerSide
  /\ terrain = [p \in Positions |-> Null]
  /\ isElevationNeedUpdate = [l \in Layers |-> FALSE]
  /\ item3D \in {NewItem3D("m1", kind, ValA, <<>>) :
                   kind \in {"mesh", "points"}}
  /\ invoked = Empty
  /\ repaints = 0

NextRepaint ==
  \/ \E c \in SetterCalls, cueRepaint \in BOOLEAN :
       CallSetter(c.prop, c.value, cueRepaint)
  \/ AnimationFrame

SpecRepaint == InitRepaint /\ [][NextRepaint]_vars

(***************************************************************************)
(* Specification of the calls that change the local transform of an Item3D *)
(***************************************************************************)
TransformOptions ==
  {[keys |-> {"scale"}, v |-> ValB],
   [keys |-> {"heading", "altitude"}, v |-> ValB],
   [keys |-> {"lngLat", "opacity"}, v |-> ValB]}

InitTransform ==
  /\ InitLayerSide
  /\ InitManagerSide
  /\ terrain = [p \in Positions |-> Null]
  /\ isElevationNeedUpdate = [l \in Layers |-> FALSE]
  /\ item3D \in {NewItem3D("m1", kind, ValA, <<>>) :
                   kind \in {"mesh", "points"}}
  /\ invoked = Empty
  /\ repaints = 0

NextTransform ==
  \/ \E o \in TransformOptions : CallModify(o)
  \/ \E scale \in {3, 4} : CallSetScale(scale, TRUE)
  \/ CallSetRelativeScale(5)
  \/ \E heading \in {0, 45} : CallSetter("heading", heading, TRUE)
  \/ \E orientation \in {X_UP, Y_UP, Z_UP} :
       CallSetSourceOrientation(orientation, TRUE)

SpecTransform == InitTransform /\ [][NextTransform]_vars

(***************************************************************************)
(* Specification of an Item3D whose states are added and removed while     *)
(* pointer events reach it                                                 *)
(***************************************************************************)
AddedStates ==
  {[name |-> "hover", props |-> [scale |-> 4]],
   [name |-> "default", props |-> [scale |-> 2]],
   [name |-> "selected", props |-> [heading |-> 45]]}
RemovedStates == {"hover", "active", "default", "focus"}

InitStateCalls ==
  /\ InitLayerSide
  /\ InitManagerSide
  /\ terrain = [p \in Positions |-> Null]
  /\ isElevationNeedUpdate = [l \in Layers |-> FALSE]
  /\ item3D \in {NewItem3D("m1", "mesh", ValA, entries) :
                   entries \in StateConfigs}
  /\ invoked = Empty
  /\ repaints = 0

NextStateCalls ==
  \/ \E type \in ItemEvents : Fire(type)
  \/ \E e \in AddedStates : CallSetStates("addState", <<e>>)
  \/ \E entries \in NamedStateConfigs : CallSetStates("setStates", entries)
  \/ \E name \in RemovedStates : CallRemoveState(name)

SpecStateCalls == InitStateCalls /\ [][NextStateCalls]_vars

(***************************************************************************)
(* Specification of the animations of one Item3D of layer L1               *)
(***************************************************************************)
\* the names playAnimation and the others are called with; "fly" is no
\* animation of the model
CalledNames == AnimationNames \cup {"fly"}
AnimationTimes == {0, 3}

InitAnimation ==
  /\ InitLayerSide
  /\ InitManagerSide
  /\ terrain = [p \in Positions |-> Null]
  /\ isElevationNeedUpdate = [l \in Layers |-> FALSE]
  /\ \E mode \in AnimationModes :
       item3D = WithAnimations(NewItem3D("m1", "mesh", ValA, <<>>), "L1",
                               mode, AnimationNames)
  /\ invoked = Empty
  /\ repaints = 0

NextAnimation ==
  \/ \E name \in CalledNames : PlayAnimation(name)
  \/ \E name \in CalledNames : PauseAnimation(name)
  \/ \E name \in CalledNames : StopAnimation(name)
  \/ UpdateAnimation
  \/ \E time \in AnimationTimes : SetAnimationTime(time)
  \/ Animate

SpecAnimation == InitAnimation /\ [][NextAnimation]_vars

(***************************************************************************)
(* Properties of the registry                                              *)
(***************************************************************************)
AddKinds ==
  {"addMesh", "addPointLight", "cloneMesh", "addMeshFromURL", "loadResolve"}

\* the objects, materials and geometries that existed before a step are
\* the same after it
HeapKept ==
  /\ \A m \in DOMAIN meshes : m \in DOMAIN meshes' /\ meshes'[m] = meshes[m]
  /\ \A m \in DOMAIN materials :
       m \in DOMAIN materials' /\ materials'[m] = materials[m]
  /\ \A g \in DOMAIN geometries :
       g \in DOMAIN geometries' /\ geometries'[g] = geometries[g]

\* C1: an add (addMesh, addPointLight, cloneMesh, addMeshFromURL before or
\* after its load) under an id that is registered in the layer throws and
\* leaves the registry, the registered item, the scene and every existing
\* object as they were.
C1_DuplicateIdThrows ==
  [][(op'.kind \in AddKinds /\ op'.id \in DOMAIN items3D[op'.layer])
       => /\ op'.result = "throw"
          /\ items3D' = items3D
          /\ scene' = scene
          /\ HeapKept]_vars

C1_Witness ==
  /\ op.kind \in {"addMesh", "cloneMesh", "loadResolve"}
  /\ op.result = "throw"
  /\ op.id \in DOMAIN items3D[op.layer]

\* C9: modifyMesh and modifyPointLight on an id that is not registered
\* return without throwing and change nothing; removeMesh on such an id
\* throws and changes nothing.
C9_MissingItem ==
  [][/\ (/\ op'.kind \in {"modifyMesh", "modifyPointLight"}
         /\ op'.id \notin DOMAIN items3D[op'.layer])
          => /\ op'.result # "throw"
             /\ items3D' = items3D /\ scene' = scene /\ HeapKept
     /\ (op'.kind = "removeMesh" /\ op'.id \notin DOMAIN items3D[op'.layer])
          => /\ op'.result = "throw"
             /\ items3D' = items3D /\ scene' = scene /\ HeapKept]_vars

C9_Witness ==
  /\ op.kind = "removeMesh"
  /\ op.result = "throw"
  /\ op.id \notin DOMAIN items3D[op.layer]
  /\ DOMAIN items3D[op.layer] # {}

EndsWith(s, suffix) ==
  /\ Len(s) >= Len(suffix)
  /\ SubSeq(s, Len(s) - Len(suffix) + 1, Len(s)) = suffix

\* a URL that names a glb or gltf file, whatever its case and the spaces
\* around it
NamesGltfFile(url) ==
  \/ EndsWith(ToLowerCase(Trim(url)), <<".", "g", "l", "b">>)
  \/ EndsWith(ToLowerCase(Trim(url)), <<".", "g", "l", "t", "f">>)

JustPositioned(id) ==
  /\ op.id = id
  /\ op.result = "ok"
  /\ \/ op.kind \in AddKinds
     \/ op.kind = "modifyMesh" /\ "lngLat" \in op.keys

\* C7: in a render pass that places the items of the layer, an item whose
\* reference is MEAN_SEA_LEVEL is placed at its altitude, and an item
\* whose reference is GROUND is, in the pass right after its add or its
\* modify({lngLat, altitude}), placed at its altitude plus the terrain
\* elevation at its (new) position.
C7_PlacementAltitude ==
  [][(op'.kind = "render" /\ "L1" \in repositioned')
       => \A id \in DOMAIN items3D'["L1"] :
            LET it == items3D'["L1"][id] IN
            /\ it.altitudeReference = MEAN_SEA_LEVEL
                 => placed'[it.mesh].altitude = it.altitude
            /\ (it.altitudeReference = GROUND /\ JustPositioned(id))
                 => placed'[it.mesh].altitude =
                      it.altitude + OrZero(terrain[it.lngLat])]_vars

C7_Witness ==
  /\ op.kind = "render"
  /\ "L1" \in repositioned
  /\ \E id \in DOMAIN items3D["L1"] :
       LET it == items3D["L1"][id] IN
       /\ it.altitudeReference = GROUND
       /\ it.altitude = 10
       /\ it.lngLat = "p0"
       /\ terrain["p0"] = 5
       /\ placed[it.mesh].altitude = 15

(***************************************************************************)
(* Properties of modify                                                    *)
(***************************************************************************)
\* the value of a modifiable property of item m1 of layer L1: what the
\* scene object and its material carry, with the item's own record of it
LayerField(its, ms, mats, k) ==
  LET it == its["L1"]["m1"]
      obj == ms[it.mesh]
  IN CASE k = "visible" -> <<obj.visible>>
       [] k = "opacity" -> <<mats[obj.material].opacity, it.opacity>>
       [] k = "pointSize" -> <<mats[obj.material].size, it.pointSize>>
       [] k = "wireframe" -> <<mats[obj.material].wireframe, it.wireframe>>
       [] OTHER -> <<it[k]>>

\* the same for an Item3D
ItemField(it, k) ==
  CASE k = "visible" -> <<it.visible>>
    [] k = "opacity" -> <<it.material.opacity, it.opacity>>
    [] k = "pointSize" -> <<it.material.size, it.pointSize>>
    [] k = "wireframe" -> <<it.material.wireframe, it.wireframe>>
    [] OTHER -> <<it[k]>>

\* C8: Layer3D.modifyMesh and Item3D.modify leave every property among
\* visibility, position, altitude, altitude reference, heading, scale,
\* opacity, point size and wireframe that is absent from the option object
\* at the value it had before the call.
C8_ModifyKeepsOmitted ==
  [][/\ (op'.kind = "modifyMesh" /\ op'.result = "ok")
          => \A k \in ModifiableKeys \ op'.keys :
               LayerField(items3D', meshes', materials', k)
                 = LayerField(items3D, meshes, materials, k)
     /\ op'.kind = "modify"
          => \A k \in ModifiableKeys \ op'.keys :
               ItemField(item3D', k) = ItemField(item3D, k)]_vars

C8_Witness ==
  /\ op.kind = "modify"
  /\ op.keys = ModifiableKeys \ {"heading"}
  /\ item3D.heading = 0
  /\ item3D.altitude = 10
  /\ item3D.material.opacity = 50
  /\ items3D["L1"]["m1"].altitude = 10
  /\ items3D["L1"]["m1"].lngLat = "p0"

(***************************************************************************)
(* Properties of the render manager                                        *)
(***************************************************************************)
\* C2: over any sequence of attaches and detaches at most one renderer
\* (and manager) is ever built; an attach while a layer is registered
\* leaves the renderer as it is, a detach that leaves a layer registered
\* does not dispose it, and a detach of the last registered layer does.
C2_SingleRenderer ==
  /\ [](renderer.built <= 1)
  /\ [][/\ (op'.kind = "onAdd" /\ op'.result = "ok" /\ layerData # <<>>)
             => renderer' = renderer
        /\ (op'.kind = "onRemove" /\ layerData' # <<>>)
             => renderer'.disposed = renderer.disposed
        /\ (op'.kind = "onRemove" /\ layerData' = <<>>)
             => renderer'.disposed]_vars

C2_Witness ==
  /\ op.kind = "onRemove"
  /\ op.n >= 3
  /\ layerData = <<>>
  /\ renderer = [built |-> 1, disposed |-> TRUE]

\* C3: with one registered layer, a move from empty space onto an object
\* dispatches one mouseenter for it, a move that keeps the nearest hit
\* dispatches nothing, a move from the object into empty space dispatches
\* one mouseleave for it, and no move dispatches anything for an object
\* that lies behind the nearest hit.
C3_EnterLeaveOnce ==
  [][(op'.kind = "mousemove" /\ Len(layerData) = 1)
       => LET l == layerData[1]
              hits == Raycast(op'.id, l)
              first == FirstHit(hits)
              current == currentRaycastIntersection
          IN /\ (current = 0 /\ first # 0)
                  => emitted' = <<[layer |-> l, type |-> "mouseenter",
                                   object |-> first]>>
             /\ (current # 0 /\ first = current) => emitted' = <<>>
             /\ (current # 0 /\ first = 0)
                  => emitted' = <<[layer |-> l, type |-> "mouseleave",
                                   object |-> current]>>
             /\ \A i \in 1..Len(emitted'), j \in 2..Len(hits) :
                  emitted'[i].object # hits[j]]_vars

C3_Witness ==
  /\ op.kind = "mousemove"
  /\ op.n >= 3
  /\ layerData = <<"L1">>
  /\ pointer = "e"
  /\ emitted = <<[layer |-> "L1", type |-> "mouseleave", object |-> 1]>>

\* C4: with one registered layer, a move that changes the nearest hit from
\* one object to a different object dispatches mouseleave for the previous
\* object and then mouseenter for the new one.
C4_LeaveThenEnter ==
  [][(/\ op'.kind = "mousemove"
      /\ Len(layerData) = 1
      /\ currentRaycastIntersection # 0
      /\ FirstHit(Raycast(op'.id, layerData[1])) # 0
      /\ FirstHit(Raycast(op'.id, layerData[1])) # currentRaycastIntersection)
       => emitted' =
            <<[layer |-> layerData[1], type |-> "mouseleave",
               object |-> currentRaycastIntersection],
              [layer |-> layerData[1], type |-> "mouseenter",
               object |-> FirstHit(Raycast(op'.id, layerData[1]))]>>]_vars

(***************************************************************************)
(* Properties of the UI states                                             *)
(***************************************************************************)
\* the value a state property has on the item
StateValue(it, prop) ==
  CASE prop = "opacity" -> it.material.opacity
    [] prop = "pointSize" -> it.pointSize
    [] OTHER -> InstanceProperty(it, prop)

C6_ReactivationIdempotent ==
  [][(/\ op'.kind = "fire"
      /\ \E i \in 1..Len(item3D.activeStates) :
           /\ item3D.activeStates[i] # "default"
           /\ ActivateEvent(item3D.activeStates[i]) = op'.id)
       => /\ item3D'.activeStates = item3D.activeStates
          /\ invoked' = Empty]_vars

(***************************************************************************)
(* Properties of cloneMesh                                                 *)
(***************************************************************************)
\* the settings cloneMesh copies from the source item
CloneKeys ==
  {"lngLat", "altitude", "altitudeReference", "visible", "scale", "heading"}

\* the value of a setting of a registered item: visibility is carried by
\* the scene object
ItemSetting(its, ms, l, id, k) ==
  IF k = "visible" THEN ms[its[l][id].mesh].visible ELSE its[l][id][k]

\* C11: a cloneMesh that goes through registers the new id with position,
\* altitude, altitude reference, visibility, scale and heading equal to the
\* source item's at the call, except that every option present in the
\* overrides (whose values are ValA's in this model) replaces the source's.
C11_CloneCopiesSource ==
  [][(op'.kind = "cloneMesh" /\ op'.result = "ok")
       => /\ op'.id \in DOMAIN items3D'[op'.layer]
          /\ op'.id \notin DOMAIN items3D[op'.layer]
          /\ \A k \in CloneKeys :
               ItemSetting(items3D', meshes', op'.layer, op'.id, k)
                 = IF k \in op'.keys THEN ValA[k]
                   ELSE ItemSetting(items3D, meshes, op'.layer,
                                    op'.source, k)]_vars

C11_Witness ==
  /\ op.kind = "cloneMesh"
  /\ op.result = "ok"
  /\ op.keys = {}
  /\ op.source \in DOMAIN items3D[op.layer]
  /\ items3D[op.layer][op.source].lngLat = "p1"
  /\ items3D[op.layer][op.source].heading = 90
  /\ items3D[op.layer][op.id].lngLat = "p1"
  /\ items3D[op.layer][op.id].heading = 90
  /\ ~meshes[items3D[op.layer][op.id].mesh].visible

\* the material and the geometry of a registered item, as they are
Resources(its, ms, mats, geos, l, id) ==
  LET obj == ms[its[l][id].mesh]
  IN IF obj.kind = "light" THEN <<>>
     ELSE <<mats[obj.material], geos[obj.geometry]>>

\* C12: a modifyMesh or removeMesh of one item leaves the material and the
\* geometry of every other item of the layer, in particular of its clone
\* or of the item it was cloned from, as they were and undisposed.
C12_CloneSharesNothing ==
  [][(op'.kind \in {"modifyMesh", "removeMesh"} /\ op'.result = "ok")
       => \A id \in DOMAIN items3D[op'.layer] \ {op'.id} :
            /\ id \in DOMAIN items3D'[op'.layer]
            /\ items3D'[op'.layer][id] = items3D[op'.layer][id]
            /\ Resources(items3D', meshes', materials', geometries',
                         op'.layer, id)
                 = Resources(items3D, meshes, materials, geometries,
                             op'.layer, id)]_vars

(***************************************************************************)
(* Properties of click, dblclick, mousedown and mouseup                    *)
(***************************************************************************)
ButtonEvents == {"click", "dblclick", "mousedown", "mouseup"}

\* C13: a click, dblclick, mousedown or mouseup casts no ray and records
\* nothing: when an object is recorded by the last pointer move (and its
\* layer is registered) exactly one event of that type is dispatched, for
\* that object and to its layer, wherever the event's own point lies; when
\* nothing is recorded nothing is dispatched.
C13_ButtonsUseRecorded ==
  [][op'.kind \in ButtonEvents
       => /\ currentRaycastIntersection' = currentRaycastIntersection
          /\ pointer' = pointer
          /\ currentRaycastIntersection = 0 => emitted' = <<>>
          /\ (/\ currentRaycastIntersection # 0
              /\ Registered(LayerID(currentRaycastIntersection)))
               => emitted' =
                    <<[layer |-> LayerID(currentRaycastIntersection),
                       type |-> op'.kind,
                       object |-> currentRaycastIntersection]>>]_vars

\* a click at a point over another object goes to the recorded one
C13_Witness ==
  /\ op.kind = "click"
  /\ op.id = "c"
  /\ pointer = "ab"
  /\ currentRaycastIntersection = 1
  /\ emitted = <<[layer |-> "L1", type |-> "click", object |-> 1]>>

(***************************************************************************)
(* Properties of the animation loops                                       *)
(***************************************************************************)
\* C14: playAnimation of an animation of a continuous item leaves exactly
\* one loop registered under layerId_itemId_animationName, the first time
\* and every later time, and leaves the other loops as they were; for a
\* manual item no call of playAnimation, pauseAnimation, updateAnimation or
\* setAnimationTime registers a loop.
C14_OneLoopPerAnimation ==
  /\ [][(/\ op'.kind = "playAnimation"
         /\ op'.id \in DOMAIN item3D.animationMap
         /\ item3D.animationMode = "continuous")
          => /\ Occurrences(animationLoops', op'.layer \o "_m1_" \o op'.id) = 1
             /\ Without(animationLoops', op'.layer \o "_m1_" \o op'.id)
                  = Without(animationLoops, op'.layer \o "_m1_" \o op'.id)]_vars
  /\ [](item3D.animationMode = "manual" => animationLoops = <<>>)

\* playAnimation was called a second time for an animation whose loop is
\* registered, next to the loop of another animation
C14_Witness ==
  /\ op.kind = "playAnimation"
  /\ op.id = "walk"
  /\ item3D.animationMode = "continuous"
  /\ animationLoops = <<"L1_m1_run", "L1_m1_walk">>
  /\ op.n >= 3

\* C15: stopAnimation of an animation of a continuous item whose loop is
\* registered leaves that loop unregistered.
C15_StopUnregisters ==
  [][(/\ op'.kind = "stopAnimation"
      /\ op'.id \in DOMAIN item3D.animationMap
      /\ item3D.animationMode = "continuous"
      /\ InSeq(animationLoops, AnimationLoopID(item3D, op'.id)))
       => ~InSeq(animationLoops', AnimationLoopID(item3D, op'.id))]_vars

(***************************************************************************)
(* Properties of the zoom range                                            *)
(***************************************************************************)
\* C16: a render pass at a zoom below minZoom or above maxZoom issues no
\* draw call for the scene of the layer.
C16_OutOfZoomNotDrawn ==
  [][\A frame \in Frames :
       (Render(frame) /\ ~IsInZoomRange(frame.zoom))
         => \A l \in Layers : ~InSeq(drawn', [call |-> "render", layer |-> l])]_vars

(***************************************************************************)
(* Properties of the names of the states                                   *)
(***************************************************************************)
\* C17: the listeners of an item belong to its states hover and active
\* only; a state of any other name, default included, has no listener, and
\* no event makes it an active state.
C17_OnlyHoverActiveBound ==
  /\ \A i \in 1..Len(item3D.listeners) :
       item3D.listeners[i].name \in {"hover", "active"}
  /\ \A i \in 1..Len(item3D.activeStates) :
       item3D.activeStates[i] \in {"default", "hover", "active"}

(***************************************************************************)
(* Properties of the repaint requests of the setters                       *)
(***************************************************************************)
\* C18: a setter never repaints by itself; called with the flag true it
\* leaves one frame callback awaited, whether one was awaited or not, and
\* called with the flag false it leaves the awaited callback as it was; the
\* frame callback requests one repaint and leaves none awaited, so that a
\* later setter with the flag true requests a new one.
C18_OneRepaintPerFrame ==
  /\ [][op'.kind = "setter"
          => /\ repaints' = repaints
             /\ item3D'.nextUpdateTick =
                  IF "cueRepaint" \in op'.keys THEN 1
                  ELSE item3D.nextUpdateTick]_vars
  /\ [][op'.kind = "animationFrame"
          => /\ item3D.nextUpdateTick = 1
             /\ repaints' = repaints + 1
             /\ item3D'.nextUpdateTick = 0]_vars

\* two setters ran, one frame made the one repaint, and a setter with the
\* flag true has requested the next frame
C18_Witness ==
  /\ op.kind = "setter"
  /\ "cueRepaint" \in op.keys
  /\ op.n = 4
  /\ repaints = 1
  /\ item3D.nextUpdateTick = 1
  /\ item3D.lngLat = "p0"
  /\ item3D.altitude = 30
  /\ item3D.heading = 45

(***************************************************************************)
(* Properties of removeMesh and clear                                      *)
(***************************************************************************)
\* C19: removeMesh of a registered id takes the object of the item out of
\* the scene, leaves its material and its geometry disposed, takes the id
\* out of the registry and leaves every other item as it was; clear leaves
\* the registry empty.
C19_RemoveReleases ==
  /\ [][(op'.kind = "removeMesh" /\ op'.id \in DOMAIN items3D[op'.layer])
          => LET l == op'.layer
                 obj == meshes[items3D[l][op'.id].mesh]
             IN /\ items3D[l][op'.id].mesh \notin scene'[l]
                /\ obj.material # 0 => materials'[obj.material].disposed
                /\ obj.geometry # 0 => geometries'[obj.geometry].disposed
                /\ DOMAIN items3D'[l] = DOMAIN items3D[l] \ {op'.id}
                /\ \A k \in DOMAIN items3D'[l] :
                     items3D'[l][k] = items3D[l][k]]_vars
  /\ [][op'.kind = "clear" => items3D'[op'.layer] = Empty]_vars

(***************************************************************************)
(* Properties of an attach without a context or without a map              *)
(***************************************************************************)
\* C20: every attach made without a gl context or without a map throws
\* and registers no layer, and when no manager existed none exists after
\* it.
C20_AbsentContextThrows ==
  [][(op'.kind = "onAdd" /\ op'.keys # {"map", "gl"})
       => /\ op'.result = "throw"
          /\ layerData' = layerData
          /\ webGLRenderManager' = webGLRenderManager]_vars

\* C20, amended: an attach without a map, and an attach without a gl
\* context while no manager exists, throws, registers no layer and leaves
\* the manager and the renderer as they were, so that the next attach with
\* both, still finding no manager, builds it and registers its layer; an
\* attach without a gl context while the manager exists does not throw and
\* registers its layer.
C20_AbsentContextAtConstruction ==
  [][/\ (/\ op'.kind = "onAdd"
         /\ \/ "map" \notin op'.keys
            \/ "gl" \notin op'.keys /\ webGLRenderManager = "null")
          => /\ op'.result = "throw"
             /\ layerData' = layerData
             /\ webGLRenderManager' = webGLRenderManager
             /\ renderer' = renderer
     /\ (/\ op'.kind = "onAdd"
         /\ op'.keys = {"map", "gl"}
         /\ webGLRenderManager = "null")
          => /\ op'.result = "ok"
             /\ webGLRenderManager' = "instance"
             /\ renderer' = [built |-> renderer.built + 1, disposed |-> FALSE]
             /\ layerData' = Append(layerData, op'.layer)
     /\ (/\ op'.kind = "onAdd"
         /\ op'.keys = {"map"}
         /\ webGLRenderManager = "instance")
          => /\ op'.result = "ok"
             /\ layerData' = Append(layerData, op'.layer)]_vars

\* the first attach threw, and the second one, with a map and a context,
\* has built the manager
C20_Witness ==
  /\ op.kind = "onAdd"
  /\ op.result = "ok"
  /\ op.keys = {"map", "gl"}
  /\ op.n = 2
  /\ nextObj = 1
  /\ layerData = <<"L1">>
  /\ webGLRenderManager = "instance"
  /\ renderer = [built |-> 1, disposed |-> FALSE]

(***************************************************************************)
(* Properties of the fold of the active states                             *)
(***************************************************************************)
\* the positions of the active-states list whose state overrides prop
Overriding(it, prop) ==
  {i \in 1..Len(it.activeStates) :
     prop \in DOMAIN PropsOf(it.states, it.activeStates[i])}

\* the override of the last active state that has one for prop
LastOverride(it, prop) ==
  LET i == CHOOSE i \in Overriding(it, prop) :
             \A j \in Overriding(it, prop) : j <= i
  IN PropsOf(it.states, it.activeStates[i])[prop]

\* C21: after an event that activates or deactivates a state, every
\* property that some state of the active-states list overrides has the
\* value of the last state of the list that overrides it.
C21_ActiveStatesFolded ==
  [][(/\ op'.kind = "fire"
      /\ \E i \in 1..Len(item3D.listeners) :
           item3D.listeners[i].type = op'.id)
       => \A prop \in StatePropertiesNames :
            Overriding(item3D', prop) # {}
              => StateValue(item3D', prop) = LastOverride(item3D', prop)]_vars

(***************************************************************************)
(* Properties of pointer moves over several layers                         *)
(***************************************************************************)
\* the registered layers whose scene the ray through a point meets
LayersHit(point) ==
  {l \in Layers : Registered(l) /\ Raycast(point, l) # <<>>}

\* C22: a move, with nothing recorded, to a point where the ray meets the
\* scene of exactly one registered layer dispatches one mouseenter for the
\* nearest object of that scene and nothing else, and records that object,
\* whatever the position of the layer in the registration order; a move
\* that keeps the recorded object under the pointer dispatches nothing.
C22_EveryLayerTested ==
  [][/\ (/\ op'.kind = "mousemove"
         /\ currentRaycastIntersection = 0
         /\ Cardinality(LayersHit(op'.id)) = 1)
          => LET l == CHOOSE l \in LayersHit(op'.id) : TRUE
                 first == FirstHit(Raycast(op'.id, l))
             IN /\ emitted' = <<[layer |-> l, type |-> "mouseenter",
                                 object |-> first]>>
                /\ currentRaycastIntersection' = first
     /\ (/\ op'.kind = "mousemove"
         /\ currentRaycastIntersection # 0
         /\ \E l \in LayersHit(op'.id) :
              FirstHit(Raycast(op'.id, l)) = currentRaycastIntersection
         /\ Cardinality(LayersHit(op'.id)) = 1)
          => /\ emitted' = <<>>
             /\ currentRaycastIntersection' = currentRaycastIntersection]_vars

\* C23: every event the manager dispatches goes to the layer whose id is
\* the layerID of the object of the event.
C23_DeliveredToOwner ==
  \A i \in 1..Len(emitted) :
    emitted[i].type # "animationLoop"
      => emitted[i].layer = LayerID(emitted[i].object)

(***************************************************************************)
(* Properties of the render pass over several layers                       *)
(***************************************************************************)
\* the layers of the calls of one kind, in the order of the calls
LayersOfCalls(calls, kind) ==
  LET sel == SelectSeq(calls, LAMBDA c : c.call = kind)
  IN [i \in 1..Len(sel) |-> sel[i].layer]

\* C24: the calls of a render pass start with the one resetState of the
\* pass; the draw calls are one per registered layer, in the order of
\* registration; and the call right before the draw call of a layer is the
\* prepareRender of that layer.
C24_PassOrder ==
  [][op'.kind = "render"
       => /\ drawn'[1].call = "resetState"
          /\ Len(LayersOfCalls(drawn', "resetState")) = 1
          /\ LayersOfCalls(drawn', "render") = layerData
          /\ LayersOfCalls(drawn', "prepareRender") = layerData
          /\ \A k \in 1..Len(drawn') :
               drawn'[k].call = "render"
                 => /\ k > 1
                    /\ drawn'[k - 1] = [call |-> "prepareRender",
                                        layer |-> drawn'[k].layer]]_vars

\* a pass over two layers of which the first registered was detached and
\* attached again
C24_Witness ==
  /\ op.kind = "render"
  /\ layerData = <<"L2", "L1">>
  /\ Len(drawn) = 5
  /\ drawn[2] = [call |-> "prepareRender", layer |-> "L2"]
  /\ drawn[5] = [call |-> "render", layer |-> "L1"]

\* C25: a pointer move after a render pass casts its rays with, for every
\* layer that pass visited, the camera matrix of that pass.
C25_RaycastAfterRecompute ==
  [][(op'.kind = "mousemove" /\ lastFrame # NoFrame)
       => \A l \in Layers :
            (Registered(l)
             /\ InSeq(drawn, [call |-> "prepareRender", layer |-> l]))
              => camera[l] = [origin |-> lastFrame.center,
                              main |-> lastFrame.main]]_vars

(***************************************************************************)
(* Properties of the passes during a projection transition                 *)
(***************************************************************************)
\* C26: a render pass whose projection transition is neither 0 nor 1
\* leaves the matrix of every object and the camera matrix of every layer
\* as they were, and so does every step that is not a render pass: they
\* are as the last pass with transition 0 or 1 that placed them left them.
C26_TransitionHolds ==
  [][(\/ op'.kind = "render" /\ lastFrame'.transition \notin {0, 100}
      \/ op'.kind # "render")
       => /\ placed' = placed
          /\ camera' = camera]_vars

\* a pass in the middle of a transition, after a pass that placed the
\* items with another main matrix
C26_Witness ==
  /\ op.kind = "render"
  /\ lastFrame.transition = 50
  /\ lastFrame.main = "M1"
  /\ camera["L1"] = [origin |-> "p1", main |-> "M2"]
  /\ placed # Empty

C28_TransformCurrent ==
  item3D.additionalTransformationMatrix =
    GetTransformationMatrix(item3D.relativeScale * item3D.scale,
                            item3D.heading, item3D.sourceOrientation)

(***************************************************************************)
(* Properties of the active-states list                                    *)
(***************************************************************************)
\* C29: the active-states list starts with default and holds no name
\* twice.
C29_ActiveStatesList ==
  /\ Len(item3D.activeStates) >= 1
  /\ item3D.activeStates[1] = "default"
  /\ \A i, j \in 1..Len(item3D.activeStates) :
       item3D.activeStates[i] = item3D.activeStates[j] => i = j

\* hover was added a second time, both of its listeners ran on mouseenter,
\* and active was activated after it
C29_Witness ==
  /\ op.kind = "fire"
  /\ op.id = "mousedown"
  /\ op.n = 3
  /\ item3D.activeStates = <<"default", "hover", "active">>
  /\ Cardinality({i \in 1..Len(item3D.listeners) :
                    item3D.listeners[i].type = "mouseenter"}) = 2

(***************************************************************************)
(* Properties of the manager while layers are registered                   *)
(***************************************************************************)
\* C30: while a layer is registered the renderer of the manager is not
\* disposed and the manager's layer is on the map.
C30_RegisteredImpliesLive ==
  layerData # <<>> => ~renderer.disposed /\ managerLayerOnMap


(***************************************************************************)
(* Specification of the pointer pipeline down to one Item3D: the map's     *)
(* pointer events enter the manager, which dispatches to the layer, which  *)
(* fires on the item of the hit mesh                                       *)
(***************************************************************************)
\* the scene object that backs the Item3D of the model: mesh m1 of L1,
\* the nearest object under the point a
ItemObject == Head(RayHits("a"))

\* the layer's handler of a dispatched mesh event: the item of the hit
\* object is fired on when the event type is among its registered types
HandleMeshEvent(r, e) ==
  IF e.object = ItemObject /\ e.layer = LayerID(ItemObject)
     /\ InSeq(r.item.registeredEventTypes, e.type)
  THEN RunListeners(r, r.item.listeners, e.type)
  ELSE r

\* the dispatches of one manager handler, handled in order
RECURSIVE HandleMeshEvents(_, _)
HandleMeshEvents(r, es) ==
  IF es = <<>> THEN r
  ELSE HandleMeshEvents(HandleMeshEvent(r, Head(es)), Tail(es))

\* the item after the layer handled the dispatches of a manager handler
Delivered(es) ==
  LET r == HandleMeshEvents([item |-> item3D, invoked |-> Empty], es)
  IN /\ item3D' = IF r.invoked = Empty THEN r.item ELSE CueUpdate(r.item)
     /\ invoked' = r.invoked
     /\ repaints' = repaints

\* the map fires mousemove: WebGLRenderManager.handleMouseMove and the
\* layer handlers it calls
MapMouseMove(point) ==
  /\ Budget
  /\ managerLayerOnMap
  /\ LET r == MoveLoop(1, point, currentRaycastIntersection, <<>>)
     IN /\ currentRaycastIntersection' = r.current
        /\ emitted' = r.emitted
        /\ Delivered(r.emitted)
  /\ pointer' = point
  /\ op' = [HostCall("mousemove") EXCEPT !.id = point]
  /\ UNCHANGED layerVars
  /\ UNCHANGED <<webGLRenderManager, renderer, layerData, managerLayerOnMap,
                 camera, drawn, lastFrame, repositioned, animationLoops>>

\* the map fires click, mousedown or mouseup at the pointer's position: the
\* manager handler of the type and the layer handler it calls
MapButton(type) ==
  /\ Budget
  /\ managerLayerOnMap
  /\ LET object == RecordedObject(currentRaycastIntersection, pointer)
         es == IF currentRaycastIntersection # 0 /\ object # 0
                  /\ Registered(LayerID(object))
               THEN <<[layer |-> LayerID(object), type |-> type,
                       object |-> object]>>
               ELSE <<>>
     IN /\ emitted' = es
        /\ Delivered(es)
  /\ op' = [HostCall(type) EXCEPT !.id = pointer]
  /\ UNCHANGED layerVars
  /\ UNCHANGED <<webGLRenderManager, renderer, layerData, managerLayerOnMap,
                 pointer, currentRaycastIntersection, camera, drawn,
                 lastFrame, repositioned, animationLoops>>

\* layer L1 is attached with the meshes m1, m2 and m3; the Item3D of m1
\* was built with a states option
InitPress ==
  /\ terrain = [p \in Positions |-> Null]
  /\ isElevationNeedUpdate = [l \in Layers |-> FALSE]
  /\ pending = <<>>
  /\ placed = Empty
  /\ camera = [l \in Layers |-> NoCamera]
  /\ drawn = <<>>
  /\ lastFrame = NoFrame
  /\ repositioned = {}
  /\ LET w == Staged(<<<<"L1", "m1">>, <<"L1", "m2">>, <<"L1", "m3">>>>)
     IN /\ items3D = w.items3D
        /\ scene = w.scene
        /\ meshes = w.meshes
        /\ materials = w.materials
        /\ geometries = w.geometries
        /\ nextObj = w.nextObj
  /\ InitManagerSide
  /\ item3D \in {NewItem3D("m1", "mesh", v, entries) :
                   v \in {ValA, ValB}, entries \in StateConfigs}
  /\ invoked = Empty
  /\ repaints = 0

NextPress ==
  \/ \E point \in ScreenPoints : MapMouseMove(point)
  \/ MapButton("mousedown")
  \/ MapButton("mouseup")

SpecPress == InitPress /\ [][NextPress]_vars

(***************************************************************************)
(* C31: Every activation of an item's active state by mousedown is         *)
(* followed by its deactivation when the mouse button is released, even if *)
(* the pointer left the item before the release: once the button has been  *)
(* released with the pointer off the item, active is not in the item's     *)
(* active-states list.                                                     *)
(* Violated: handleMouseUp dispatches only to the recorded intersection,   *)
(* which the move off the item has cleared, so the release reaches no item *)
(* and active stays in the list.                                           *)
(***************************************************************************)
C31_ReleaseDeactivates ==
  [][(op'.kind = "mouseup" /\ FirstHit(RayHits(pointer')) # ItemObject)
       => ~InSeq(item3D'.activeStates, "active")]_vars


\* the item after an event of the type was fired on it
AfterEvent(it, type) ==
  RunListeners([item |-> it, invoked |-> Empty], it.listeners, type).item

(***************************************************************************)
(* C32: Activating a UI state and then deactivating it, with only default  *)
(* otherwise active, returns every item property to the value it had       *)
(* immediately before the activation, including properties whose prior     *)
(* value was 0 or false and properties the caller changed after the item   *)
(* was created.                                                            *)
(* Violated: the default state is a snapshot taken at construction that    *)
(* leaves out every falsy value, and deactivation reapplies that snapshot. *)
(***************************************************************************)
C32_DeactivationRestores ==
  [][(/\ op'.kind = "fire"
      /\ item3D.activeStates = <<"default">>
      /\ \E name \in {"hover", "active"} :
           /\ op'.id = ActivateEvent(name)
           /\ item3D'.activeStates = <<"default", name>>)
       => \A prop \in StatePropertiesNames :
            StateValue(AfterEvent(item3D', DeactivateEvent(
                         item3D'.activeStates[2])), prop)
              = StateValue(item3D, prop)]_vars


\* the positions of the listeners a state name has on the item, by kind
ListenersOf(it, name, commit) ==
  {i \in 1..Len(it.listeners) :
     it.listeners[i].name = name /\ it.listeners[i].commit = commit}

(***************************************************************************)
(* C33: For each state name at most one activation/deactivation listener   *)
(* pair is attached to the item at any time, and every attached listener   *)
(* applies the property set the state currently has: none applies a        *)
(* removed or replaced one.                                                *)
(* Violated: addState and setStates register the new pair without calling  *)
(* the cleanup of the state they replace.                                  *)
(***************************************************************************)
C33_OneListenerPair ==
  item3D.id # "" =>
    /\ \A name \in StateEventNames :
         /\ Cardinality(ListenersOf(item3D, name, "active")) <= 1
         /\ Cardinality(ListenersOf(item3D, name, "inactive")) <= 1
    /\ \A i \in 1..Len(item3D.listeners) :
         /\ item3D.listeners[i].name \in DOMAIN item3D.states
         /\ item3D.listeners[i].props
              = item3D.states[item3D.listeners[i].name]


(***************************************************************************)
(* Specification of the listeners of one Item3D: the application's on and  *)
(* off, removeState, and pointer events                                    *)
(***************************************************************************)
\* the callbacks the application registers, by name
Callbacks == {"f", "g"}
AppListener(type, callback) ==
  [type |-> type, name |-> callback, commit |-> "callback", props |-> Empty]

\* Item3D.on
On(it, h) ==
  [it EXCEPT !.registeredEventTypes = Append(@, h.type),
             !.listeners = Append(@, h)]

\* the application calls item.on(type, callback)
CallOn(type, callback) ==
  /\ Budget
  /\ item3D.id # ""
  /\ item3D' = On(item3D, AppListener(type, callback))
  /\ invoked' = Empty
  /\ repaints' = repaints
  /\ op' = [HostCall("on") EXCEPT !.id = type, !.source = callback]
  /\ UNCHANGED <<layerVars, managerVars>>

\* the application calls item.off(type, callback)
CallOff(type, callback) ==
  /\ Budget
  /\ item3D.id # ""
  /\ item3D' = Off(item3D, AppListener(type, callback))
  /\ invoked' = Empty
  /\ repaints' = repaints
  /\ op' = [HostCall("off") EXCEPT !.id = type, !.source = callback]
  /\ UNCHANGED <<layerVars, managerVars>>

ButtonTypes == {"mousedown", "mouseup"}

NextListeners ==
  \/ \E type \in ButtonTypes, cb \in Callbacks : CallOn(type, cb)
  \/ \E type \in ButtonTypes, cb \in Callbacks : CallOff(type, cb)
  \/ \E name \in {"hover", "active"} : CallRemoveState(name)
  \/ \E type \in PointerEvents : Fire(type)

SpecListeners == InitStateCalls /\ [][NextListeners]_vars

(***************************************************************************)
(* C34: An event type is in the item's list of registered event types      *)
(* exactly when at least one listener for that type is attached to the     *)
(* item.                                                                   *)
(* Violated: off drops every entry of the type from the list, whatever     *)
(* listeners of the type remain attached.                                  *)
(***************************************************************************)
C34_RegisteredIffListener ==
  item3D.id # "" =>
    \A type \in ItemEvents :
      InSeq(item3D.registeredEventTypes, type)
        <=> \E i \in 1..Len(item3D.listeners) : item3D.listeners[i].type = type


(***************************************************************************)
(* C35: When several addMeshFromURL calls for the same id are in flight,   *)
(* the first load to resolve registers the item and every later one        *)
(* rejects, leaving the registry and the scene as they are; the scene      *)
(* holds exactly the meshes of the registered items, one per id.           *)
(***************************************************************************)
C35_OneLoadRegisters ==
  [][op'.kind = "loadResolve"
       => LET l == op'.layer
              id == op'.id
          IN /\ id \in DOMAIN items3D[l]
                  => /\ op'.result = "throw"
                     /\ DOMAIN items3D'[l] = DOMAIN items3D[l]
                     /\ items3D'[l][id].mesh = items3D[l][id].mesh
                     /\ scene' = scene
             /\ id \notin DOMAIN items3D[l]
                  => /\ op'.result = "ok"
                     /\ id \in DOMAIN items3D'[l]
                     /\ items3D'[l][id].mesh \notin scene[l]
             /\ scene'[l] = {items3D'[l][k].mesh : k \in DOMAIN items3D'[l]}
             /\ \A j, k \in DOMAIN items3D'[l] :
                  items3D'[l][j].mesh = items3D'[l][k].mesh => j = k]_vars

\* two loads for one id were in flight; the first to resolve registered
\* the item and the second one has just rejected
C35_Witness ==
  /\ op.kind = "loadResolve"
  /\ op.result = "throw"
  /\ op.n = 4
  /\ pending = <<>>
  /\ op.id \in DOMAIN items3D[op.layer]
  /\ Cardinality(scene[op.layer]) = 1


(***************************************************************************)
(* Specification of removing meshes from an attached layer while the       *)
(* manager holds animation loops and a recorded pointer intersection       *)
(***************************************************************************)
\* layer L1 is attached with the meshes m1, m2 and m3; the Item3D of m1
\* has loaded animations
InitRemoval ==
  /\ terrain = [p \in Positions |-> Null]
  /\ isElevationNeedUpdate = [l \in Layers |-> FALSE]
  /\ pending = <<>>
  /\ placed = Empty
  /\ camera = [l \in Layers |-> NoCamera]
  /\ drawn = <<>>
  /\ lastFrame = NoFrame
  /\ repositioned = {}
  /\ LET w == Staged(<<<<"L1", "m1">>, <<"L1", "m2">>, <<"L1", "m3">>>>)
     IN /\ items3D = w.items3D
        /\ scene = w.scene
        /\ meshes = w.meshes
        /\ materials = w.materials
        /\ geometries = w.geometries
        /\ nextObj = w.nextObj
  /\ InitManagerSide
  /\ \E mode \in AnimationModes :
       item3D = WithAnimations(NewItem3D("m1", "mesh", ValA, <<>>), "L1",
                               mode, AnimationNames)
  /\ invoked = Empty
  /\ repaints = 0

RemovedIds == {"m1", "m2"}

NextRemoval ==
  \/ \E name \in CalledNames : PlayAnimation(name)
  \/ Animate
  \/ \E point \in ScreenPoints : HandleMouseMove(point)
  \/ \E point \in ScreenPoints : HandleMouseClick(point)
  \/ \E point \in ScreenPoints : HandleMouseDown(point)
  \/ \E point \in ScreenPoints : HandleMouseUp(point)
  \/ \E id \in RemovedIds : RemoveMesh("L1", id)

SpecRemoval == InitRemoval /\ [][NextRemoval]_vars

\* the item of the model is in the registry of its layer
ItemRegistered == item3D.id \in DOMAIN items3D[item3D.parentLayer]

(***************************************************************************)
(* C36: After removeMesh(id) the render manager keeps nothing that refers  *)
(* to the removed item: none of its animation loops is registered or       *)
(* called on a tick, the recorded pointer intersection is not its mesh,    *)
(* and no click, mousedown, mouseup or mouseleave is dispatched for it.    *)
(* Violated: removeMesh takes the mesh out of the scene and the item out   *)
(* of the registry and leaves the manager as it is.                        *)
(***************************************************************************)
C36_RemovedItemForgotten ==
  [][/\ ~ItemRegistered'
          => \A name \in AnimationNames :
               ~InSeq(animationLoops', AnimationLoopID(item3D', name))
     /\ (op'.kind = "animate" /\ ~ItemRegistered') => emitted' = <<>>
     /\ currentRaycastIntersection' # 0
          => currentRaycastIntersection'
               \in scene'[LayerID(currentRaycastIntersection')]
     /\ op'.kind \in {"click", "mousedown", "mouseup", "mousemove"}
          => \A i \in 1..Len(emitted') :
               emitted'[i].object \in scene'[LayerID(emitted'[i].object)]]_vars


(***************************************************************************)
(* Specification of the animation ticks of a layer with two animated       *)
(* items                                                                   *)
(***************************************************************************)
\* Item3D.playAnimation of the item of mesh m2, a continuous item with the
\* same animations: its loop is registered with the manager
PlayAnimationOfOther(animationName) ==
  /\ Budget
  /\ item3D.id # ""
  /\ animationLoops' =
       AddAnimationLoop(animationLoops,
                        AnimationLoopID([parentLayer |-> item3D.parentLayer,
                                         id |-> "m2"], animationName))
  /\ op' = [HostCall("playAnimation") EXCEPT
              !.layer = item3D.parentLayer, !.id = animationName,
              !.source = "m2"]
  /\ UNCHANGED <<itemVars, layerVars, webGLRenderManager, renderer,
                 layerData, managerLayerOnMap, pointer,
                 currentRaycastIntersection, emitted, camera, drawn, lastFrame,
                 repositioned>>

NextTicks ==
  \/ \E name \in CalledNames : PlayAnimation(name)
  \/ \E name \in AnimationNames : PlayAnimationOfOther(name)
  \/ \E name \in CalledNames : PauseAnimation(name)
  \/ Animate

SpecTicks == InitRemoval /\ [][NextTicks]_vars

(***************************************************************************)
(* C37: On each animation tick, every continuous-mode item with a playing  *)
(* animation has its animation advanced by the time elapsed since the      *)
(* previous tick (one tick), whatever the number of animated items in the  *)
(* layer and of animations playing on the same item.                       *)
(* Violated: every callback of a tick asks the one clock of the layer, so  *)
(* only the item of the first callback receives the elapsed time.          *)
(***************************************************************************)
C37_EveryItemAdvanced ==
  [][op'.kind = "animate"
       => /\ \A i \in 1..Len(animationLoops) :
               MixerAdvance(animationLoops, LoopOwner(animationLoops[i])) = 1
          /\ (/\ item3D.animationMode = "continuous"
              /\ \E name \in AnimationNames :
                   InSeq(animationLoops, AnimationLoopID(item3D, name)))
               => item3D'.mixerTime = item3D.mixerTime + 1]_vars


(***************************************************************************)
(* Specification of moving one GROUND-referenced Item3D over a terrain     *)
(***************************************************************************)
\* the states option: hover moves the item, or changes its scale only
MovingStateConfigs ==
  {<<[name |-> "hover", props |-> [lngLat |-> "p1"]]>>,
   <<[name |-> "hover", props |-> [scale |-> 2]]>>}

MoveOptions ==
  {[keys |-> {"lngLat"}, v |-> ValA],
   [keys |-> {"lngLat", "heading"}, v |-> ValB]}

\* the terrain is loaded; the item was added at p0 with the GROUND
\* reference and holds the elevation sampled there
InitElevation ==
  /\ InitLayerSide
  /\ InitManagerSide
  /\ terrain \in [Positions -> Elevations \cup {Null}]
  /\ isElevationNeedUpdate = [l \in Layers |-> FALSE]
  /\ \E entries \in MovingStateConfigs :
       item3D = [NewItem3D("m1", "mesh", ValB, entries) EXCEPT
                   !.elevation = OrZero(terrain[ValB.lngLat])]
  /\ invoked = Empty
  /\ repaints = 0

NextElevation ==
  \/ \E o \in MoveOptions : CallModify(o)
  \/ \E p \in Positions, cueRepaint \in BOOLEAN :
       CallSetter("lngLat", p, cueRepaint)
  \/ \E type \in {"mouseenter", "mouseleave"} : Fire(type)
  \/ AnimationFrame

SpecElevation == InitElevation /\ [][NextElevation]_vars

(***************************************************************************)
(* C38: For an item whose altitude reference is GROUND, the cached         *)
(* elevation is the terrain elevation sampled at the item's current        *)
(* position, after every operation that changes the position.              *)
(* Violated: setLngLat, which a UI state that overrides lngLat calls as    *)
(* well, stores the position and does not sample the terrain.              *)
(***************************************************************************)
C38_ElevationAtPosition ==
  (item3D.id # "" /\ item3D.altitudeReference = GROUND)
    => item3D.elevation = OrZero(QueryTerrainElevation(item3D.lngLat))

=============================================================================
